---- MODULE Spec2Model ----
(***************************************************************************)
(* State-machine model of the vos kernel core (mematrix/vos).              *)
(*                                                                         *)
(* Part B: the binary buddy page allocator, src/src/mm/page.rs, with the   *)
(* intrusive circular list of src/src/util/list.rs and the bitmap helpers  *)
(* of src/src/util/bit.rs.                                                 *)
(* Part C: the SLUB object cache, src/src/mm/kmem/mod.rs and slub.rs.      *)
(***************************************************************************)
EXTENDS Integers, Sequences, FiniteSets, TLC

(***************************************************************************)
(* Program constants.                                                      *)
(***************************************************************************)
PAGE_ORDER == 12
PAGE_SIZE == 4096
MAX_FREE_AREA_ORDER == 10
MAX_ZONE_COUNT == 1
SIZE_OF_PAGE == 32

(***************************************************************************)
(* Bounds of the model.                                                    *)
(***************************************************************************)
\* Largest zone, counted in top-order blocks (max_alloc_large_pages).
MaxLargeBlocks == 2
\* Blocks that may be allocated and not yet freed at the same time.
MaxLive == 3
\* Largest order requested once the zone is no longer fresh.
MaxBusyOrder == 2
\* alloc_pages / free_pages calls in one run.
MaxCalls == 7
\* Harts, and tasks allocating from the object cache.
NumCpus == 2
NumTasks == 2
\* Object-cache allocation calls in one run.
MaxAllocs == 4
\* Objects given back in one run.
MaxFrees == 1

(***************************************************************************)
(* util/align.rs and the integer operators of Rust, on naturals.           *)
(***************************************************************************)
Pow2(n) == 2 ^ n

Shl(x, n) == x * Pow2(n)

Shr(x, n) == x \div Pow2(n)

\* x & !((1 << order) - 1)
align_down(val, order) == (val \div Pow2(order)) * Pow2(order)

\* (val + o) & !o with o = (1 << order) - 1
align_up(val, order) == align_down(val + (Pow2(order) - 1), order)

\* alignment.trailing_zeros() of a power of two
RECURSIVE get_order(_)
get_order(alignment) ==
    IF alignment <= 1 THEN 0 ELSE 1 + get_order(alignment \div 2)

\* bit `pos` of x
BitOf(x, pos) == (x \div Pow2(pos)) % 2

\* x ^ (1 << pos)
XorBit(x, pos) == IF BitOf(x, pos) = 1 THEN x - Pow2(pos) ELSE x + Pow2(pos)

\* x & (!0 << n)
AndMask(x, n) == (x \div Pow2(n)) * Pow2(n)

\* x & !(!0 << n)
AndNotMask(x, n) == x % Pow2(n)

(***************************************************************************)
(* State.                                                                  *)
(*   nxt, prv     List.next / List.prev of every list node whose field has *)
(*                been written: page descriptors are nodes 0 .. and the    *)
(*                free_list head of FreeArea k is node HeadOf(k).  A field *)
(*                outside the domain is memory never initialised.          *)
(*   bitmap       per order below the top, the bits of FreeArea.bitmap     *)
(*                that are 1                                               *)
(*   flags        Page.flags of the descriptors whose flags were written   *)
(*   free_pages, max_pages   Zone.free_pages, Zone.max_pages               *)
(*   ALLOC_START  the address of page index 0                              *)
(*   status       "run", or how the kernel stopped: "panic" (an assertion  *)
(*                or panic!), "wild" (a list operation went through        *)
(*                memory that is no initialised list node), "fault" (a     *)
(*                load or store through the null pointer)                  *)
(*   live         the blocks handed out and not yet freed, each a record   *)
(*                [id, addr, order]                                        *)
(*   freed        the blocks freed and not handed out again since          *)
(*   calls        number of API calls made                                 *)
(*   last         the last API call and its result                         *)
(*   KMEM_HEAD, KMEM_ALLOC   the statics of the kernel heap (kmem/mod.rs), *)
(*                0 for the null head                                      *)
(*   kheap        the AllocList headers written in the kernel heap, by     *)
(*                address: [size, taken]                                   *)
(*   klive        the blocks kmalloc and kzalloc returned and kfree did    *)
(*                not take back, each [ptr, sz]                            *)
(*   cache        the KmemCache fields size, object_count, page_order and  *)
(*                cpu_partial_slabs                                        *)
(*   cache_node   KmemCache.node: [ptr, nr_partial], ptr 0 when null; its  *)
(*                partial list is the list of head NodeHead in nxt / prv   *)
(*   cpu_slab     per hart, the KmemCacheCpu [free_list, page, partial]    *)
(*   slabs        the counters word of every page made a slab:             *)
(*                [objects, freelist, frozen]                              *)
(*   mem          the words written in slab memory, by address             *)
(*   pc, tcpu, loc   per task: the step it is at in slab_alloc_node /      *)
(*                slab_alloc, the hart it is on, and its local variables   *)
(*   held         how many times each object address is allocated out      *)
(*   nops         object-cache calls started: allocations and frees        *)
(*   built        per slab, what alloc_slab did: the free list it threaded *)
(*                and the addresses it wrote                               *)
(*   ALLOC_FN, DEALLOC_FN   the allocator the page-table code delegates to *)
(*                (mmu::allocator): "early" or "kernel"                    *)
(*   HEAP_BASE    mm::HEAP_BASE, the cursor of the early allocator         *)
(*   table_mode, root   the paging mode of the root table, its address     *)
(*   pt           the page-table entries written, by address; addresses    *)
(*                and entries are 64-bit words                             *)
(*   tables       the pages alloc_zeroed_page returned and free_page has   *)
(*                not been given back                                      *)
(*   released     the pages given to free_page and not returned since      *)
(*   mlast        the last page-table call, its arguments and its result   *)
(*   mcalls       number of page-table calls made                          *)
(*   ready_list   List.next / List.prev of ready_head and of the list      *)
(*                field of every task, as far as they were written         *)
(*   task_status  TaskInfo.status of the tasks whose status is defined     *)
(*   cpu_stack    TaskTrapFrame.cpu_stack of the tasks scheduled so far    *)
(*   running      per hart, the task switch_to_task was last called for    *)
(*   sscratch     per hart, the trap-frame pointer in sscratch             *)
(*   added, dispatched   the tasks ready_list_add_task linked and the      *)
(*                tasks schedule took off the ready list, in order         *)
(*   slast        the last scheduler or trap call and its result           *)
(*   scalls       number of scheduler and trap calls made                  *)
(* The preempt counter and the spin locks:                                 *)
(*   preempt      per hart, the preempt_union of the task running on it:   *)
(*                the 32-bit count and the 32-bit need_resched word        *)
(*   hart_sstatus per hart, the sstatus register as a set of bit positions *)
(*   lockw        per spin lock, the AtomicBool of SpinLockPure            *)
(*   guards       per hart, the locks it holds, innermost last, each with  *)
(*                the way it was taken, the flags saved, and the depth and *)
(*                SIE from before                                          *)
(*   lop          per hart, the call in progress and its next step         *)
(*   pdepth       per hart, preempt_disable calls not yet matched          *)
(*   pending      per hart, whether preempt_set_need_resched was called    *)
(*                and preempt_clear_need_resched was not since             *)
(*   plast        the last preempt or lock call and its result             *)
(*   zone_mem_size   mem_size of MEMORY_ZONES[0], 0 before page::init      *)
(*   dt_regions   the regions of the device tree's memory node, in the     *)
(*                order of the node; a region is <<starting_address,       *)
(*                size>> with size << >> for None and <<s>> for Some(s)    *)
(*   mem_regions  the array handed to mm::early_init, << >> before         *)
(***************************************************************************)
VARIABLES nxt, prv, bitmap, flags, free_pages, max_pages, ALLOC_START,
          status, live, freed, calls, last,
          KMEM_HEAD, KMEM_ALLOC, kheap, klive,
          cache, cache_node, cpu_slab, slabs, mem,
          pc, tcpu, loc, held, nops, built,
          ALLOC_FN, DEALLOC_FN, HEAP_BASE, table_mode, root, pt, tables, released,
          mlast, mcalls,
          ready_list, task_status, cpu_stack, running, sscratch, added,
          dispatched, slast, scalls,
          preempt, hart_sstatus, lockw, guards, lop, pdepth, pending, plast,
          zone_mem_size, dt_regions, mem_regions

bvars == <<nxt, prv, bitmap, flags, free_pages, max_pages, ALLOC_START,
           status, live, freed, calls, last>>

kvars == <<KMEM_HEAD, KMEM_ALLOC, kheap, klive>>

svars == <<cache, cache_node, cpu_slab, slabs, mem,
           pc, tcpu, loc, held, nops, built>>

mvars == <<ALLOC_FN, DEALLOC_FN, HEAP_BASE, table_mode, root, pt, tables, released,
           mlast, mcalls>>

\* The state of the subsystems the allocators do not touch.
schvars == <<ready_list, task_status, cpu_stack, running, sscratch, added,
             dispatched, slast, scalls>>

pvars == <<preempt, hart_sstatus, lockw, guards, lop, pdepth, pending, plast>>

lvars == <<zone_mem_size, dt_regions, mem_regions>>

xvars == <<mvars, schvars, pvars, lvars>>

\* The page-table code before any table exists (mmu.rs lines 46-47).
MmuUnused ==
    /\ ALLOC_FN = "early"
    /\ DEALLOC_FN = "early"
    /\ HEAP_BASE = 0
    /\ table_mode = "Bare"
    /\ root = {}
    /\ pt = << >>
    /\ tables = {}
    /\ released = {}
    /\ mlast = [op |-> "none"]
    /\ mcalls = 0

Orders == 0 .. (MAX_FREE_AREA_ORDER - 1)

\* The null pointer, as a page or list node and as an address.
NULL == -1

\* The list node that is FreeArea[k].free_list.
HeadOf(k) == -(k + 2)

Heads == {HeadOf(k) : k \in Orders}

IsPage(n) == n >= 0

\* f with f[k] = v, k added to the domain when new.
Upd(f, k, v) == [x \in (DOMAIN f) \cup {k} |-> IF x = k THEN v ELSE f[x]]

(***************************************************************************)
(* util/list.rs on a heap h = [nxt, prv, wild].  Reading a field that was  *)
(* never written, or going through a pointer that is no list node, sets    *)
(* wild and leaves the heap as it is.                                      *)
(***************************************************************************)
Heap(n, p) == [nxt |-> n, prv |-> p, wild |-> FALSE]

Wild(h) == [h EXCEPT !.wild = TRUE]

\* list::is_empty
is_empty(h, head) == h.nxt[head] = head

\* list::delete
list_delete(h, entry) ==
    IF h.wild \/ entry \notin DOMAIN h.nxt \/ entry \notin DOMAIN h.prv
    THEN Wild(h)
    ELSE LET p == h.prv[entry]
             n == h.nxt[entry]
             n1 == Upd(h.nxt, p, n)
         IN  [h EXCEPT !.nxt = n1, !.prv = Upd(h.prv, n1[entry], p)]

\* list::insert_after, which is list::head_append
insert_after(h, node, entry) ==
    IF h.wild \/ node \notin DOMAIN h.nxt
    THEN Wild(h)
    ELSE LET p1 == Upd(h.prv, entry, node)
             n1 == Upd(h.nxt, entry, h.nxt[node])
             p2 == Upd(p1, n1[node], entry)
             n2 == Upd(n1, node, entry)
         IN  [h EXCEPT !.nxt = n2, !.prv = p2]

head_append(h, head, entry) == insert_after(h, head, entry)

Range(s) == {s[i] : i \in DOMAIN s}

\* The nodes reached from `head` by following next, up to the first return
\* to `head`, to a node seen before or to memory never written.
RECURSIVE Walk(_, _, _, _)
Walk(n, head, cur, seen) ==
    IF cur \notin DOMAIN n THEN seen
    ELSE LET c == n[cur]
         IN  IF c = head \/ c \in Range(seen) THEN seen
             ELSE Walk(n, head, c, Append(seen, c))

\* The blocks on the free list of order k, in list order.
FreeList(k) == Walk(nxt, HeadOf(k), HeadOf(k), <<>>)

(***************************************************************************)
(* page::init, lines 281-352: the layout computed from HEAP_BASE and the    *)
(* first memory region, and the zone it leaves.                            *)
(***************************************************************************)
ALIGNMENT == Shl(PAGE_SIZE, MAX_FREE_AREA_ORDER - 1)

PAGE_COUNT_LAST_AREA == Pow2(MAX_FREE_AREA_ORDER - 1)

RECURSIVE BitmapLenSum(_, _)
\* bitmap_len after the loop of line 308: `>>` binds looser than `+` in Rust,
\* so each term is (max_alloc_pages >> (i + 1 + 7)) / 8.
BitmapLenSum(max_alloc_pages, i) ==
    IF i = 0 THEN 0
    ELSE BitmapLenSum(max_alloc_pages, i - 1)
         + (Shr(max_alloc_pages, (i - 1) + 1 + 7) \div 8)

RECURSIVE BitmapOffset(_, _)
\* The offset from bitmap_start of the bitmap handed to FreeArea i (line 320).
BitmapOffset(max_alloc_pages, i) ==
    IF i = 0 THEN 0
    ELSE BitmapOffset(max_alloc_pages, i - 1)
         + ((Shr(max_alloc_pages, (i - 1) + 1) + 7) \div 8)

InitLayout(heap_base, mem_start, mem_size) ==
    LET mem_end == align_down(mem_start + mem_size, get_order(ALIGNMENT))
        alloc_min_addr == align_up(heap_base, get_order(ALIGNMENT))
        max_alloc_pages == (mem_end - alloc_min_addr) \div PAGE_SIZE
        bitmap_start == align_up(heap_base, get_order(8))
        bitmap_len == BitmapLenSum(max_alloc_pages, MAX_FREE_AREA_ORDER - 1)
        page_start == align_up(bitmap_start + bitmap_len, get_order(32))
        max_alloc_large_pages ==
            (mem_end - page_start)
                \div Shl(PAGE_SIZE + SIZE_OF_PAGE, MAX_FREE_AREA_ORDER - 1)
        alloc_pages == Shl(max_alloc_large_pages, MAX_FREE_AREA_ORDER - 1)
        page_end == page_start + SIZE_OF_PAGE * alloc_pages
    IN  [asserted |-> alloc_min_addr >= mem_start /\ alloc_min_addr < mem_end,
         mem_end |-> mem_end,
         max_alloc_pages |-> max_alloc_pages,
         bitmap_start |-> bitmap_start,
         bitmap_len |-> bitmap_len,
         page_start |-> page_start,
         max_alloc_large_pages |-> max_alloc_large_pages,
         alloc_pages |-> alloc_pages,
         page_end |-> page_end,
         alloc_start |-> align_up(page_end, get_order(ALIGNMENT))]

\* Zone::init and lines 331-344: every head an empty list, then the top-order
\* blocks chained head -> block 0 -> block 1 -> ... -> head by partial_append.
TopBlocks(n) == {i * PAGE_COUNT_LAST_AREA : i \in 0 .. (n - 1)}

InitNext(n) ==
    LET top == HeadOf(MAX_FREE_AREA_ORDER - 1)
    IN  [x \in Heads \cup TopBlocks(n) |->
            IF x \in Heads /\ x # top THEN x
            ELSE IF x = top THEN (IF n = 0 THEN top ELSE 0)
            ELSE IF x = (n - 1) * PAGE_COUNT_LAST_AREA THEN top
            ELSE x + PAGE_COUNT_LAST_AREA]

InitPrev(n) ==
    LET top == HeadOf(MAX_FREE_AREA_ORDER - 1)
    IN  [x \in Heads \cup TopBlocks(n) |->
            IF x \in Heads /\ x # top THEN x
            ELSE IF x = top
                 THEN (IF n = 0 THEN top ELSE (n - 1) * PAGE_COUNT_LAST_AREA)
            ELSE IF x = 0 THEN top
            ELSE x - PAGE_COUNT_LAST_AREA]

\* The inputs of init: HEAP_BASE and the first memory region.
MEM_START == 1073741824

HeapBases == {MEM_START + 1048576, MEM_START + 1048576 + 4100}

MemSizes == {(b + 1) * ALIGNMENT : b \in 1 .. MaxLargeBlocks}

\* A HEAP_BASE so close below an ALIGNMENT boundary that the smallest region
\* has no room for a top-order block and its descriptors: a zone of 0 pages.
TightHeapBase == MEM_START + ALIGNMENT - 2 * PAGE_SIZE

(***************************************************************************)
(* The allocator proper.  A zone value z = [h, bm, fl, free, unl] is the   *)
(* part of the state one call works on: the list heap, the bitmaps, the    *)
(* page flags and Zone.free_pages; unl records, for the call, each merge   *)
(* step as <<area, page_idx, block unlinked>>.                             *)
(***************************************************************************)
\* bit::change_bit_array on the bitmap of one order
change_bit(bits, pos) == IF pos \in bits THEN bits \ {pos} ELSE bits \cup {pos}

\* page::bitmap_mark_used
bitmap_mark_used(bm, order, index) ==
    [bm EXCEPT ![order] = change_bit(bm[order], Shr(index, 1 + order))]

\* page::expand_areas, lines 546-557: split down from `high` to `low`, the
\* upper half of each split going to the head of the next lower free list.
RECURSIVE expand_areas(_, _, _, _, _)
expand_areas(z, page, index, low, high) ==
    IF ~(low < high) THEN z
    ELSE LET h1 == high - 1
             size == Pow2(h1)
             buddy == page + size
         IN  expand_areas(
                 [z EXCEPT !.fl = Upd(z.fl, buddy, 0),
                           !.h = head_append(z.h, HeadOf(h1), buddy),
                           !.bm = bitmap_mark_used(z.bm, h1, index + size)],
                 page, index, low, h1)

\* The first order at or above `order` whose free list is not empty, or
\* MAX_FREE_AREA_ORDER when there is none (the loop of line 523).
RECURSIVE FirstNonEmpty(_, _)
FirstNonEmpty(h, order) ==
    IF order >= MAX_FREE_AREA_ORDER THEN MAX_FREE_AREA_ORDER
    ELSE IF is_empty(h, HeadOf(order)) THEN FirstNonEmpty(h, order + 1)
    ELSE order

\* page::alloc_page_on_zone, lines 522-544.  The result carries the page
\* taken, NULL when there is none.
alloc_page_on_zone(z, order) ==
    LET current_order == FirstNonEmpty(z.h, order)
    IN  IF current_order = MAX_FREE_AREA_ORDER
        THEN [z |-> z, page |-> NULL]
        ELSE LET page == z.h.nxt[HeadOf(current_order)]
             IN  IF ~IsPage(page)
                 \* container_of on a node that is a FreeArea head, not a Page
                 THEN [z |-> [z EXCEPT !.h = Wild(z.h)], page |-> NULL]
                 ELSE LET h1 == list_delete(z.h, page)
                          bm1 == IF current_order # MAX_FREE_AREA_ORDER - 1
                                 THEN bitmap_mark_used(z.bm, current_order, page)
                                 ELSE z.bm
                          z1 == [z EXCEPT !.h = h1, !.bm = bm1,
                                          !.free = z.free - Pow2(order)]
                      IN  [z |-> expand_areas(z1, page, page, order, current_order),
                           page |-> page]

\* page::do_alloc_pages, lines 491-515.
do_alloc_pages(z, order) ==
    IF Pow2(order) > z.free THEN [z |-> z, page |-> NULL]
    ELSE LET r == alloc_page_on_zone(z, order)
         IN  IF r.page = NULL THEN r
             ELSE [z |-> [r.z EXCEPT !.fl = Upd(r.z.fl, r.page, 0)],
                   page |-> r.page]

\* page::page_to_address, lines 466-476.  Address 0 is the null address.
page_to_address(page, alloc_start) ==
    IF page = NULL THEN 0 ELSE alloc_start + page * PAGE_SIZE

\* page::address_to_page, lines 478-489.
address_to_page(addr, alloc_start) ==
    IF addr <= alloc_start THEN NULL ELSE (addr - alloc_start) \div PAGE_SIZE

\* The range check of free_pages_bulk, line 575.  In Rust `+` binds tighter
\* than `<<`, and `<<` tighter than `>`: (page_idx + 1) << order > max_pages.
free_range_invalid(page_idx, order, maxp) ==
    (AndNotMask(page_idx, order) # 0) \/ (Shl(page_idx + 1, order) > maxp)

\* The block unlinked by one merge step of free_pages_bulk, line 588: `order`
\* is the order the call was made with, not the order the merge has reached.
merge_buddy(page_idx, order, cur) == XorBit(page_idx, order)

\* The merge loop of free_pages_bulk, lines 582-596, from area `cur` on.
RECURSIVE merge_loop(_, _, _, _, _)
merge_loop(z, page_idx, index, order, cur) ==
    IF cur >= MAX_FREE_AREA_ORDER - 1
    THEN [z EXCEPT !.h = head_append(z.h, HeadOf(cur), page_idx)]
    ELSE LET old == index \in z.bm[cur]
             bm1 == [z.bm EXCEPT ![cur] = change_bit(z.bm[cur], index)]
         IN  IF ~old
             THEN [z EXCEPT !.bm = bm1,
                            !.h = head_append(z.h, HeadOf(cur), page_idx)]
             ELSE merge_loop(
                      [z EXCEPT !.bm = bm1,
                                !.h = list_delete(z.h, merge_buddy(page_idx, order, cur)),
                                !.unl = Append(z.unl,
                                    <<cur, page_idx, merge_buddy(page_idx, order, cur)>>)],
                      AndMask(page_idx, cur + 1), Shr(index, 1), order, cur + 1)

\* page::free_pages_bulk, lines 571-597.
free_pages_bulk(z, page_idx, order, maxp) ==
    IF free_range_invalid(page_idx, order, maxp)
    THEN [z |-> z, panic |-> TRUE]
    ELSE [z |-> merge_loop([z EXCEPT !.free = z.free + Pow2(order)],
                           page_idx, Shr(page_idx, 1 + order), order, order),
          panic |-> FALSE]

\* The zone index do_free_pages reads from Page.flags, line 562; flags never
\* written read as any value.
ZoneIdxOf(fl, page) == IF page \in DOMAIN fl THEN {fl[page] % 256} ELSE 0 .. 255

\* page::do_free_pages, lines 559-569, for the zone index it read.
do_free_pages(z, page, order, maxp, zone_idx) ==
    IF ~(order < MAX_FREE_AREA_ORDER /\ page # NULL) THEN [z |-> z, panic |-> TRUE]
    ELSE IF ~(zone_idx < MAX_ZONE_COUNT) THEN [z |-> z, panic |-> TRUE]
    ELSE free_pages_bulk(z, page, order, maxp)

(***************************************************************************)
(* The object cache, src/src/mm/kmem/mod.rs and slub.rs: data and the      *)
(* operations of the allocation paths on it.                               *)
(***************************************************************************)
CPUs == 0 .. (NumCpus - 1)

Tasks == 1 .. NumTasks

\* The list node that is KmemCacheNode.partial.
NodeHead == -(MAX_FREE_AREA_ORDER + 2)

\* kmem::order_objects, lines 391-394.
order_objects(order, size) == Shl(PAGE_SIZE, order) \div size

\* kmem::set_cpu_partial and slub_set_cpu_partial, lines 404-433.
cpu_partial_slabs(size, object_count) ==
    LET nr_objects == IF size >= PAGE_SIZE THEN 6
                      ELSE IF size >= 1024 THEN 24
                      ELSE IF size >= 256 THEN 52
                      ELSE 120
    IN  (nr_objects * 2 + object_count - 1) \div object_count

\* The caches of the model, as <<size, page_order>>: the padded object size
\* and the page order calc_sizes stored.  Objects of 16384 bytes fill an
\* order-3 slab exactly; objects of 10920 bytes leave 8 bytes of it.
CacheShapes == {<<16384, 3>>, <<10920, 3>>}

\* The KmemCache fields calc_sizes (lines 280-315) and set_cpu_partial leave
\* for a shape.
CacheOf(shape) ==
    LET n == order_objects(shape[2], shape[1])
    IN  [size |-> shape[1], page_order |-> shape[2], object_count |-> n,
         cpu_partial_slabs |-> cpu_partial_slabs(shape[1], n)]

\* slub::make_counters, lines 91-95: [objects:16 | freelist | frozen:1].
make_counters(objects, ptr, frozen) ==
    [objects |-> objects % 65536, freelist |-> ptr, frozen |-> frozen]

\* kmem::slab_address, lines 932-936.
slab_address(slab, alloc_start) == page_to_address(slab, alloc_start)

\* kmem::check_valid_pointer, lines 920-930.
check_valid_pointer(c, base, object) ==
    IF object = 0 THEN TRUE
    ELSE ~(\/ object < base
           \/ object >= base + c.object_count * c.size
           \/ (object - base) % c.size # 0)

\* The loop of alloc_slab, lines 504-509: count free pointers threaded from
\* p on, then a 0 stored at the address the loop ended on.
RECURSIVE thread_objects(_, _, _, _)
thread_objects(m, p, count, size) ==
    IF count = 0 THEN Upd(m, p, 0)
    ELSE thread_objects(Upd(m, p, p + size), p + size, count - 1, size)

\* The addresses that loop stores to.
thread_writes(start, count, size) == {start + i * size : i \in 0 .. count}

\* The objects reached from `object` through their free pointers in m, up to
\* a 0, a word never written or a repeat.
RECURSIVE Chain(_, _, _)
Chain(m, object, seen) ==
    IF object = 0 \/ object \in Range(seen) THEN seen
    ELSE IF object \notin DOMAIN m THEN Append(seen, object)
    ELSE Chain(m, m[object], Append(seen, object))

\* kmem::alloc_slab, lines 484-512, on the zone z, the slab memory m and the
\* slab counters sl.  slab is NULL when the page allocator had no pages.
\* r is what alloc_slab_page (lines 514-520) got from the page allocator.
init_slab(r, start, c, m, sl) ==
    IF r.page = NULL
    THEN [z |-> r.z, slab |-> NULL, start |-> 0, m |-> m, sl |-> sl]
    ELSE [z |-> r.z, slab |-> r.page, start |-> start,
          m |-> thread_objects(m, start, c.object_count, c.size),
          sl |-> Upd(sl, r.page, make_counters(c.object_count, start, FALSE))]

slab_of_page(r, c, m, sl, alloc_start) ==
    init_slab(r, page_to_address(r.page, alloc_start), c, m, sl)

alloc_slab(z, c, m, sl, alloc_start) ==
    slab_of_page(do_alloc_pages(z, c.page_order), c, m, sl, alloc_start)

\* What alloc_slab did for the slab it made, for the record in `built`.
Built(c, m, start) ==
    [chain |-> Chain(m, start, << >>),
     wrote |-> thread_writes(start, c.object_count, c.size)]

\* arch::atomic::compare_exchange_usize on a word holding cur: the word is
\* replaced by new when it equals expected, as one atomic step.
compare_exchange_usize(cur, expected, new) ==
    IF cur = expected THEN [ok |-> TRUE, val |-> new]
    ELSE [ok |-> FALSE, val |-> cur]

\* acquire_slab with the slab left on the node partial list (remove_partial
\* forgotten).
acquire_slab_no_remove(st, slab, mode) ==
    LET counters == st.sl[slab]
    IN  IF counters.frozen THEN [st EXCEPT !.panic = TRUE, !.t = 0]
        ELSE [st EXCEPT
                !.sl[slab] = IF mode THEN make_counters(counters.objects, 0, TRUE)
                             ELSE [counters EXCEPT !.frozen = TRUE],
                !.t = counters.freelist]

\* kmem::acquire_slab, lines 779-800, on the scan state st of
\* get_partial_node; st.t is the value returned.
acquire_slab(st, slab, mode) ==
    LET counters == st.sl[slab]
    IN  IF counters.frozen THEN [st EXCEPT !.panic = TRUE, !.t = 0]
        ELSE [st EXCEPT
                !.sl[slab] = IF mode THEN make_counters(counters.objects, 0, TRUE)
                             ELSE [counters EXCEPT !.frozen = TRUE],
                !.h = list_delete(st.h, slab),
                !.nr = st.nr - 1,
                !.t = counters.freelist]

\* kmem::put_cpu_partial with drain = false, lines 808-837.  Slub.partial is
\* a union with Slub.slab_list: partial.next is the word of List.prev and
\* partial.slabs the word of List.next.
put_cpu_partial(st, slab, cpu) ==
    LET old_slab == st.cs[cpu].partial
        count == IF old_slab # NULL THEN st.h.nxt[old_slab] ELSE 0
    IN  [st EXCEPT !.h.nxt = Upd(st.h.nxt, slab, count + 1),
                   !.h.prv = Upd(st.h.prv, slab, old_slab),
                   !.cs[cpu].partial = slab]

\* The closure get_partial_node runs for each slab of the node partial list,
\* lines 756-774, over the slabs `rest` still to visit.
RECURSIVE for_each_partial(_, _, _, _)
for_each_partial(st, rest, cpu, limit) ==
    IF rest = << >> \/ st.panic THEN st
    ELSE LET cur == Head(rest)
             a == acquire_slab(st, cur, st.object = 0)
         IN  IF a.panic \/ a.t = 0 THEN a
             ELSE LET b == IF st.object = 0
                           THEN [a EXCEPT !.slab = cur, !.object = a.t]
                           ELSE put_cpu_partial(
                                    [a EXCEPT !.partial_slabs = a.partial_slabs + 1],
                                    cur, cpu)
                  IN  IF b.partial_slabs <= limit
                      THEN for_each_partial(b, Tail(rest), cpu, limit)
                      ELSE b

\* kmem::get_partial_node, lines 742-777, run under the node's list_lock by
\* the task on hart cpu.
get_partial_node(c, n, h, sl, cs, cpu) ==
    LET st0 == [h |-> h, sl |-> sl, nr |-> n.nr_partial, cs |-> cs, object |-> 0,
                slab |-> NULL, partial_slabs |-> 0, panic |-> FALSE, t |-> 0]
    IN  IF n.ptr = 0 \/ n.nr_partial = 0 THEN st0
        ELSE for_each_partial(st0, Walk(h.nxt, NodeHead, NodeHead, << >>), cpu,
                              c.cpu_partial_slabs \div 2)

\* A task's local variables at the start of a call.
NoLocals ==
    [c |-> 0, object |-> 0, slab |-> NULL, next_object |-> 0, cur_cpu |-> 0,
     freelist |-> 0]

\* The cache as kmem_cache_open has it when it reaches init_kmem_cache_nodes
\* in SlabState::Down: the per-hart KmemCacheCpu all zero, no node, no slab.
SlabStatics(shape) ==
    /\ cache = CacheOf(shape)
    /\ cache_node = [ptr |-> 0, nr_partial |-> 0]
    /\ cpu_slab = [c \in CPUs |-> [free_list |-> 0, page |-> NULL, partial |-> NULL]]
    /\ slabs = << >>
    /\ mem = << >>
    /\ pc = [t \in Tasks |-> "idle"]
    /\ loc = [t \in Tasks |-> NoLocals]
    /\ held = << >>
    /\ nops = [alloc |-> 0, free |-> 0]
    /\ built = << >>

(***************************************************************************)
(* The buddy allocator as a state machine: init, then alloc_pages and      *)
(* free_pages calls.  A panic or a wild list access stops the kernel.      *)
(***************************************************************************)
Zone == [h |-> Heap(nxt, prv), bm |-> bitmap, fl |-> flags, free |-> free_pages,
         unl |-> << >>]

\* The pages of the block of `order` pages at address addr.
BlockPages(addr, order, alloc_start) ==
    LET first == (addr - alloc_start) \div PAGE_SIZE
    IN  first .. (first + Pow2(order) - 1)

\* The zone page::init leaves for HEAP_BASE hb and a region of ms bytes.
ZoneInit(hb, ms) ==
        LET L == InitLayout(hb, MEM_START, ms)
        IN  /\ L.asserted
            /\ nxt = InitNext(L.max_alloc_large_pages)
            /\ prv = InitPrev(L.max_alloc_large_pages)
            /\ bitmap = [k \in 0 .. (MAX_FREE_AREA_ORDER - 2) |-> {}]
            /\ flags = << >>
            /\ free_pages = L.alloc_pages
            /\ max_pages = L.alloc_pages
            /\ ALLOC_START = L.alloc_start
            /\ zone_mem_size = ms
            /\ dt_regions = << <<MEM_START, <<ms>> >> >>
            /\ mem_regions = << <<MEM_START, ms>> >>
            /\ status = "run"
            /\ live = {}
            /\ freed = {}
            /\ calls = 0
            /\ last = [op |-> "init", order |-> 0, addr |-> 0, unlinked |-> << >>]

\* The scheduler before sched::init: TASK_LIST as TaskList::new() leaves it
\* (scheduler.rs lines 62-70), no task built, every hart in its boot code.
SchedUnused ==
    /\ ready_list = Heap(<< >>, << >>)
    /\ task_status = << >>
    /\ cpu_stack = << >>
    /\ running = [c \in CPUs |-> NULL]
    /\ sscratch = [c \in CPUs |-> NULL]
    /\ added = << >>
    /\ dispatched = << >>
    /\ slast = [op |-> "none"]
    /\ scalls = 0

\* The spin locks of the runs.
NumLocks == 2

Locks == 1 .. NumLocks

\* SIE, bit 1 of sstatus (riscv.rs lines 167-168)
SIE == 1

\* No task has touched its preempt counter and no hart a lock: the counter is
\* all zero as kzalloc leaves the TaskInfo of a new thread (kernel_thread.rs
\* line 29; nothing calls init_task_preempt_count), interrupts are off as the
\* boot code leaves them, every lock is free as SpinLockPure::new() builds it
\* (spin_lock.rs lines 21-25).
PreemptUnused ==
    /\ preempt = [c \in CPUs |-> [count |-> 0, need_resched |-> 0]]
    /\ hart_sstatus = [c \in CPUs |-> {}]
    /\ lockw = [l \in Locks |-> FALSE]
    /\ guards = [c \in CPUs |-> << >>]
    /\ lop = [c \in CPUs |-> [op |-> "none"]]
    /\ pdepth = [c \in CPUs |-> 0]
    /\ pending = [c \in CPUs |-> FALSE]
    /\ plast = [op |-> "none"]

\* The kernel heap before kmem_init (kmem/mod.rs lines 1001-1003).
KmemStatics ==
    /\ KMEM_HEAD = 0
    /\ KMEM_ALLOC = 0
    /\ kheap = << >>
    /\ klive = {}

\* The object cache while nothing uses it.
SlabUnused ==
    /\ SlabStatics(CHOOSE shape \in CacheShapes : TRUE)
    /\ tcpu = [t \in Tasks |-> 0]

BuddyInit ==
    /\ \E hb \in HeapBases, ms \in MemSizes : ZoneInit(hb, ms)
    /\ KmemStatics
    /\ SlabUnused
    /\ MmuUnused
    /\ SchedUnused
    /\ PreemptUnused

\* The state a call leaves: the zone written back, or the stop.
Leave(z, panic) ==
    /\ status' = IF panic THEN "panic" ELSE IF z.h.wild THEN "wild" ELSE "run"
    /\ nxt' = z.h.nxt
    /\ prv' = z.h.prv
    /\ bitmap' = z.bm
    /\ flags' = z.fl
    /\ free_pages' = z.free

\* alloc_pages(_, order), lines 385-388.
AllocPages(order) ==
    /\ status = "run"
    /\ calls < MaxCalls
    /\ Cardinality(live) < MaxLive
    /\ LET r == do_alloc_pages(Zone, order)
           addr == page_to_address(r.page, ALLOC_START)
       IN  /\ Leave(r.z, FALSE)
           /\ live' = IF addr = 0 \/ r.z.h.wild THEN live
                      ELSE live \cup {[id |-> calls, addr |-> addr, order |-> order]}
           /\ freed' = IF addr = 0 THEN freed
                       ELSE {f \in freed :
                               BlockPages(f[1], f[2], ALLOC_START)
                                 \cap BlockPages(addr, order, ALLOC_START) = {}}
           /\ last' = [op |-> "alloc", order |-> order, addr |-> addr,
                       unlinked |-> << >>]
    /\ calls' = calls + 1
    /\ UNCHANGED <<max_pages, ALLOC_START>>
    /\ UNCHANGED <<kvars, xvars, svars>>

\* free_pages(addr, order), lines 448-456, of the block [addr, order]; `op`
\* names the call in `last`.  A block enters `freed` when the call returned.
FreeBlock(addr, order, op) ==
    /\ status = "run"
    /\ calls < MaxCalls
    /\ LET page == address_to_page(addr, ALLOC_START)
       IN  \E zone_idx \in (IF page = NULL THEN {0} ELSE ZoneIdxOf(flags, page)) :
             LET r == IF addr = 0 THEN [z |-> Zone, panic |-> TRUE]
                      ELSE do_free_pages(Zone, page, order, max_pages, zone_idx)
             IN  /\ Leave(r.z, r.panic)
                 /\ freed' = IF r.panic \/ r.z.h.wild THEN freed
                             ELSE freed \cup {<<addr, order>>}
                 /\ last' = [op |-> op, order |-> order, addr |-> addr,
                             unlinked |-> r.z.unl]
    /\ calls' = calls + 1
    /\ UNCHANGED <<max_pages, ALLOC_START>>
    /\ UNCHANGED <<kvars, xvars, svars>>

\* A free that matches a live allocation.
FreePages ==
    \E b \in live :
        /\ FreeBlock(b.addr, b.order, "free")
        /\ live' = live \ {b}

\* The orders a call may ask for: any order on the fresh zone, the small ones
\* afterwards.
AskOrders == IF calls = 0 THEN Orders ELSE 0 .. MaxBusyOrder

Alloc == \E order \in AskOrders : AllocPages(order)

NextBuddy == Alloc \/ FreePages

vars == <<bvars, kvars, svars, xvars>>

SpecBuddy == BuddyInit /\ [][NextBuddy]_vars

\* kmem_init allocates 512 kernel pages (kmem/mod.rs line 1018).
ALLOC_COUNT == 512

\* kmem::kmem_init, lines 1015-1028, called by mm::early_init right after
\* page::init.  When alloc_pages returns 0 the debug_assert! of line 1020
\* panics in a build with debug assertions, and in a build without them
\* line 1022 stores through the null pointer.
KmemInit ==
    /\ status = "run"
    /\ calls = 0
    /\ KMEM_ALLOC = 0
    /\ LET r == do_alloc_pages(Zone, get_order(ALLOC_COUNT))
           k_alloc == page_to_address(r.page, ALLOC_START)
       IN  /\ IF k_alloc = 0
              THEN /\ \E debug_assertions \in BOOLEAN :
                        status' = IF debug_assertions THEN "panic" ELSE "fault"
                   /\ UNCHANGED <<nxt, prv, bitmap, flags, free_pages, kvars, xvars>>
              ELSE /\ Leave(r.z, FALSE)
                   /\ kheap' = Upd(kheap, k_alloc,
                                   [size |-> ALLOC_COUNT * PAGE_SIZE, taken |-> FALSE])
                   /\ KMEM_ALLOC' = ALLOC_COUNT
                   /\ KMEM_HEAD' = k_alloc
                   /\ klive' = klive
           /\ last' = [op |-> "kmem_init", order |-> get_order(ALLOC_COUNT),
                       addr |-> k_alloc, unlinked |-> << >>]
    /\ calls' = calls + 1
    /\ UNCHANGED <<max_pages, ALLOC_START, live, freed>>
    /\ UNCHANGED <<svars, xvars>>

\* mm::early_init on any of the regions, the tight one included.
KmemBoot ==
    /\ \E hb \in HeapBases \cup {TightHeapBase}, ms \in MemSizes : ZoneInit(hb, ms)
    /\ KmemStatics
    /\ SlabUnused
    /\ MmuUnused
    /\ SchedUnused
    /\ PreemptUnused

NextKmem == KmemInit \/ Alloc \/ FreePages

SpecKmem == KmemBoot /\ [][NextKmem]_vars

\* A free_pages call for a block that was freed and not handed out since.
DoubleFree ==
    \E f \in freed :
        /\ FreeBlock(f[1], f[2], "dfree")
        /\ live' = live

NextBuddyDF == Alloc \/ FreePages \/ DoubleFree

SpecBuddyDF == BuddyInit /\ [][NextBuddyDF]_vars

(***************************************************************************)
(* The object cache as a state machine.  The boot hart opens the cache     *)
(* (early_kmem_cache_node_alloc); then tasks call slab_alloc_node, each    *)
(* shared read or write of the fast path a step of its own, a task being   *)
(* moved to another hart wherever preemption is enabled.  The page         *)
(* allocator is entered by one task at a time.                             *)
(***************************************************************************)
zvars == <<nxt, prv, bitmap, flags, free_pages>>

bfix == <<max_pages, ALLOC_START, live, freed, calls, last>>

\* The steps of slab_alloc that run with preemption disabled.
NoPreempt ==
    {"reread_slab", "redo", "new_slab", "new_objects", "retry_load_slab",
     "load_freelist"}

\* Task t is the one its hart runs: no other task of the hart is inside a
\* section with preemption disabled.
CanRun(t) ==
    /\ status = "run"
    /\ cache_node.ptr # 0
    /\ \A u \in Tasks \ {t} : tcpu[u] = tcpu[t] => pc[u] \notin NoPreempt

Goto(t, label, l) ==
    /\ pc' = [pc EXCEPT ![t] = label]
    /\ loc' = [loc EXCEPT ![t] = l]

\* held with one more holder of object.
Give(h, object) ==
    IF object \in DOMAIN h THEN [h EXCEPT ![object] = @ + 1] ELSE Upd(h, object, 1)

\* The call of task t returns object (0 for null).
Return(t, object) ==
    /\ Goto(t, "idle", NoLocals)
    /\ held' = IF object = 0 THEN held ELSE Give(held, object)

\* kmem::early_kmem_cache_node_alloc, lines 462-482.  init_kmem_cache_node
\* (lines 942-944) has an empty body, so add_partial_no_lock reads nr_partial
\* and partial.next of the node as the fresh slab memory holds them: either
\* the words happen to be those of an empty list, or the list insertion goes
\* through whatever pointer is there.
EarlyKmemCacheNodeAlloc ==
    /\ status = "run"
    /\ cache_node.ptr = 0
    /\ \E r \in {alloc_slab(Zone, cache, mem, slabs, ALLOC_START)} :
       LET n == r.start
           counters == make_counters(cache.object_count - 1, r.m[n], FALSE)
       IN  IF r.slab = NULL
           THEN /\ status' = "panic"
                /\ UNCHANGED <<zvars, cache_node, slabs, mem, held, built>>
           ELSE \E is_empty_list \in BOOLEAN :
                  LET h0 == [r.z.h EXCEPT !.nxt = Upd(r.z.h.nxt, NodeHead, NodeHead),
                                          !.prv = Upd(r.z.h.prv, NodeHead, NodeHead)]
                      h1 == IF is_empty_list THEN head_append(h0, NodeHead, r.slab)
                            ELSE Wild(r.z.h)
                  IN  /\ Leave([r.z EXCEPT !.h = h1], FALSE)
                      /\ cache_node' = [ptr |-> n, nr_partial |-> 1]
                      /\ slabs' = [r.sl EXCEPT ![r.slab] = counters]
                      /\ mem' = r.m
                      /\ held' = Give(held, n)
                      /\ built' = Upd(built, r.slab, Built(cache, r.m, r.start))
    /\ UNCHANGED <<bfix, kvars, xvars, cache, cpu_slab, pc, tcpu, loc, nops>>

\* slab_alloc_node, line 555: c = s.cpu_slab.get_raw(), at the start of a call
\* or after a failed compare-and-swap.
GetRaw(t) ==
    /\ CanRun(t)
    /\ pc[t] \in {"idle", "retry"}
    /\ pc[t] = "idle" => nops.alloc < MaxAllocs
    /\ nops' = IF pc[t] = "idle" THEN [nops EXCEPT !.alloc = @ + 1] ELSE nops
    /\ Goto(t, "read_free_list", [NoLocals EXCEPT !.c = tcpu[t]])
    /\ UNCHANGED <<bvars, kvars, xvars, cache, cache_node, cpu_slab, slabs, mem, tcpu,
                   held, built>>

\* line 558: object = (*c).free_list
ReadFreeList(t) ==
    /\ CanRun(t)
    /\ pc[t] = "read_free_list"
    /\ Goto(t, "read_page", [loc[t] EXCEPT !.object = cpu_slab[loc[t].c].free_list])
    /\ UNCHANGED <<bvars, kvars, xvars, cache, cache_node, cpu_slab, slabs, mem, tcpu,
                   held, nops, built>>

\* line 559: slab = (*c).page
ReadPage(t) ==
    /\ CanRun(t)
    /\ pc[t] = "read_page"
    /\ Goto(t, "check", [loc[t] EXCEPT !.slab = cpu_slab[loc[t].c].page])
    /\ UNCHANGED <<bvars, kvars, xvars, cache, cache_node, cpu_slab, slabs, mem, tcpu,
                   held, nops, built>>

\* lines 561-564: the slow path is entered through slab_alloc_preempt_guard,
\* which disables preemption and takes the KmemCacheCpu of the hart the task
\* is on; otherwise next_object = get_free_pointer(object).
CheckFast(t) ==
    /\ CanRun(t)
    /\ pc[t] = "check"
    /\ LET l == loc[t]
       IN  IF l.object = 0 \/ l.slab = NULL
           THEN /\ Goto(t, "reread_slab", [NoLocals EXCEPT !.c = tcpu[t]])
                /\ status' = status
           ELSE IF l.object \notin DOMAIN mem
           THEN /\ status' = "wild"
                /\ UNCHANGED <<pc, loc>>
           ELSE /\ Goto(t, "cur_cpu", [l EXCEPT !.next_object = mem[l.object]])
                /\ status' = status
    /\ UNCHANGED <<zvars, bfix, kvars, xvars, cache, cache_node, cpu_slab, slabs, mem,
                   tcpu, held, nops, built>>

\* line 571: cur_cpu = s.cpu_slab.get_raw()
CurCpu(t) ==
    /\ CanRun(t)
    /\ pc[t] = "cur_cpu"
    /\ Goto(t, "cas", [loc[t] EXCEPT !.cur_cpu = tcpu[t]])
    /\ UNCHANGED <<bvars, kvars, xvars, cache, cache_node, cpu_slab, slabs, mem, tcpu,
                   held, nops, built>>

\* lines 572-577: the compare-and-swap on (*cur_cpu).free_list.
Cas(t) ==
    /\ CanRun(t)
    /\ pc[t] = "cas"
    /\ LET l == loc[t]
           r == compare_exchange_usize(cpu_slab[l.cur_cpu].free_list,
                                       l.object, l.next_object)
       IN  /\ cpu_slab' = [cpu_slab EXCEPT ![l.cur_cpu].free_list = r.val]
           /\ IF r.ok THEN Return(t, l.object)
              ELSE Goto(t, "retry", NoLocals) /\ held' = held
    /\ UNCHANGED <<bvars, kvars, xvars, cache, cache_node, slabs, mem, tcpu, nops, built>>

\* slab_alloc, line 618: slab = read_once!(c.page)
RereadSlab(t) ==
    /\ CanRun(t)
    /\ pc[t] = "reread_slab"
    /\ LET slab == cpu_slab[loc[t].c].page
       IN  Goto(t, IF slab = NULL THEN "new_slab" ELSE "redo",
                [loc[t] EXCEPT !.slab = slab])
    /\ UNCHANGED <<bvars, kvars, xvars, cache, cache_node, cpu_slab, slabs, mem, tcpu,
                   held, nops, built>>

\* slab_alloc, lines 626-642, with interrupts off: the slab is checked again,
\* then the hart's free_list is taken if it has objects, else the slab's own
\* freelist through get_freelist (lines 726-738).
Redo(t) ==
    /\ CanRun(t)
    /\ pc[t] = "redo"
    /\ LET l == loc[t]
           c == cpu_slab[l.c]
           freelist == slabs[l.slab].freelist
       IN  IF l.slab # c.page
           THEN /\ Goto(t, "reread_slab", l)
                /\ UNCHANGED <<cpu_slab, slabs>>
           ELSE IF c.free_list # 0
           THEN /\ Goto(t, "load_freelist", [l EXCEPT !.freelist = c.free_list])
                /\ UNCHANGED <<cpu_slab, slabs>>
           ELSE /\ slabs' = [slabs EXCEPT ![l.slab] =
                                make_counters(@.objects, 0, freelist # 0)]
                /\ IF freelist = 0
                   THEN /\ cpu_slab' = [cpu_slab EXCEPT ![l.c].page = NULL]
                        /\ Goto(t, "new_slab", l)
                   ELSE /\ cpu_slab' = cpu_slab
                        /\ Goto(t, "load_freelist", [l EXCEPT !.freelist = freelist])
    /\ UNCHANGED <<bvars, kvars, xvars, cache, cache_node, mem, tcpu, held, nops, built>>

\* slab_alloc, lines 645-667: the hart's partial chain.
NewSlab(t) ==
    /\ CanRun(t)
    /\ pc[t] = "new_slab"
    /\ LET l == loc[t]
           c == cpu_slab[l.c]
       IN  IF c.partial = NULL
           THEN Goto(t, "new_objects", l) /\ cpu_slab' = cpu_slab
           ELSE IF c.page # NULL
           THEN Goto(t, "reread_slab", l) /\ cpu_slab' = cpu_slab
           ELSE /\ cpu_slab' = [cpu_slab EXCEPT ![l.c].page = c.partial,
                                                ![l.c].partial = prv[c.partial]]
                /\ Goto(t, "redo", [l EXCEPT !.slab = c.partial])
    /\ UNCHANGED <<bvars, kvars, xvars, cache, cache_node, slabs, mem, tcpu, held, nops,
                   built>>

\* slab_alloc, lines 671-675: get_partial_node; with no slab from the node
\* the task goes on to alloc_slab inside yield_and_run (line 677), where it
\* can be preempted.
NewObjects(t) ==
    /\ CanRun(t)
    /\ pc[t] = "new_objects"
    /\ \E r \in {get_partial_node(cache, cache_node, Heap(nxt, prv), slabs,
                                  cpu_slab, tcpu[t])} :
       LET l == loc[t]
       IN  /\ status' = IF r.panic THEN "panic" ELSE IF r.h.wild THEN "wild" ELSE "run"
           /\ nxt' = r.h.nxt
           /\ prv' = r.h.prv
           /\ slabs' = r.sl
           /\ cpu_slab' = r.cs
           /\ cache_node' = [cache_node EXCEPT !.nr_partial = r.nr]
           /\ IF r.object # 0
              THEN Goto(t, "retry_load_slab",
                        [l EXCEPT !.freelist = r.object, !.slab = r.slab])
              ELSE Goto(t, "alloc_slab", [l EXCEPT !.freelist = 0, !.slab = NULL])
    /\ UNCHANGED <<bitmap, flags, free_pages, bfix, kvars, xvars, cache, mem, tcpu, held,
                   nops, built>>

\* slab_alloc, lines 677-690: alloc_slab with preemption enabled, then the
\* guard is bound to the KmemCacheCpu of the hart the task is on now.  With
\* no page, alloc_slab_page (lines 514-520) has made a reference from the
\* null page: the null check of alloc_slab then sees it, or not.
AllocSlab(t) ==
    /\ CanRun(t)
    /\ pc[t] = "alloc_slab"
    /\ \E r \in {alloc_slab(Zone, cache, mem, slabs, ALLOC_START)} :
       LET l == loc[t]
       IN  IF r.slab = NULL
           THEN /\ \E null_seen \in BOOLEAN :
                     IF null_seen THEN Return(t, 0) /\ status' = status
                     ELSE status' = "fault" /\ UNCHANGED <<pc, loc, held>>
                /\ UNCHANGED <<zvars, slabs, mem, built>>
           ELSE /\ Leave(r.z, FALSE)
                /\ mem' = r.m
                /\ slabs' = [r.sl EXCEPT ![r.slab] =
                                make_counters(cache.object_count, 0, TRUE)]
                /\ built' = Upd(built, r.slab, Built(cache, r.m, r.start))
                /\ Goto(t, "retry_load_slab",
                        [l EXCEPT !.c = tcpu[t], !.slab = r.slab,
                                  !.freelist = r.sl[r.slab].freelist])
                /\ held' = held
    /\ UNCHANGED <<bfix, kvars, xvars, cache, cache_node, cpu_slab, tcpu, nops>>

\* slab_alloc, lines 694-712, with interrupts off: a slab the hart got in the
\* meantime is dropped with its free_list (the deactivation is not written),
\* then the new slab becomes the hart's.
RetryLoadSlab(t) ==
    /\ CanRun(t)
    /\ pc[t] = "retry_load_slab"
    /\ LET l == loc[t]
           c == cpu_slab[l.c]
       IN  /\ cpu_slab' = [cpu_slab EXCEPT ![l.c] =
                              [free_list |-> IF c.page # NULL THEN 0 ELSE c.free_list,
                               page |-> l.slab,
                               partial |-> c.partial]]
           /\ Goto(t, "load_freelist", l)
    /\ UNCHANGED <<bvars, kvars, xvars, cache, cache_node, slabs, mem, tcpu, held, nops,
                   built>>

\* slab_alloc, lines 719-723: the slab must be frozen; the hart's free_list
\* becomes the successor of the object taken, which is returned.
LoadFreelist(t) ==
    /\ CanRun(t)
    /\ pc[t] = "load_freelist"
    /\ LET l == loc[t]
           c == cpu_slab[l.c]
       IN  IF c.page = NULL \/ l.freelist \notin DOMAIN mem
           THEN /\ status' = IF c.page = NULL THEN "fault" ELSE "wild"
                /\ UNCHANGED <<cpu_slab, pc, loc, held>>
           ELSE IF ~slabs[c.page].frozen
           THEN /\ status' = "panic"
                /\ UNCHANGED <<cpu_slab, pc, loc, held>>
           ELSE /\ status' = status
                /\ cpu_slab' = [cpu_slab EXCEPT ![l.c].free_list = mem[l.freelist]]
                /\ Return(t, l.freelist)
    /\ UNCHANGED <<zvars, bfix, kvars, xvars, cache, cache_node, slabs, mem, tcpu, nops,
                   built>>

\* The scheduler moves a task that is inside a call, at a point where
\* preemption is enabled, to another hart.
Migrate(t) ==
    /\ status = "run"
    /\ pc[t] \notin NoPreempt \cup {"idle"}
    /\ \E cpu \in CPUs \ {tcpu[t]} : tcpu' = [tcpu EXCEPT ![t] = cpu]
    /\ UNCHANGED <<bvars, kvars, xvars, cache, cache_node, cpu_slab, slabs, mem, pc, loc,
                   held, nops, built>>

\* The region the object cache runs on: one top-order block, or no page.
SlabInit ==
    /\ \E hb \in {MEM_START + ALIGNMENT \div 2, TightHeapBase} :
           ZoneInit(hb, 2 * ALIGNMENT)
    /\ KmemStatics
    /\ \E shape \in CacheShapes : SlabStatics(shape)
    /\ tcpu \in [Tasks -> CPUs]
    /\ MmuUnused
    /\ SchedUnused
    /\ PreemptUnused

FastPath(t) == GetRaw(t) \/ ReadFreeList(t) \/ ReadPage(t) \/ CheckFast(t)
                 \/ CurCpu(t) \/ Cas(t)

SlowPath(t) == RereadSlab(t) \/ Redo(t) \/ NewSlab(t) \/ NewObjects(t)
                 \/ AllocSlab(t) \/ RetryLoadSlab(t) \/ LoadFreelist(t)

NextSlab ==
    \/ EarlyKmemCacheNodeAlloc
    \/ \E t \in Tasks : FastPath(t) \/ SlowPath(t) \/ Migrate(t)

SpecSlab == SlabInit /\ [][NextSlab]_vars

(***************************************************************************)
(* The free path.  The source has no code that gives an object back        *)
(* (KmemCache::free, lines 159-160, is empty), so the two cases are those  *)
(* of the design's "Free path": an object of the hart's active slab is     *)
(* pushed on the hart's free_list by a compare-and-swap, any other object  *)
(* on the freelist of its slab.                                            *)
(***************************************************************************)
\* The slabs whose pages hold object: one, or none.
slabs_of(object) ==
    {slab \in DOMAIN slabs :
        /\ slab_address(slab, ALLOC_START) <= object
        /\ object < slab_address(slab, ALLOC_START) + Shl(PAGE_SIZE, cache.page_order)}

slab_of(object) == CHOOSE slab \in slabs_of(object) : TRUE

\* held with one holder of object less.
Take(h, object) ==
    IF h[object] > 1 THEN [h EXCEPT ![object] = @ - 1]
    ELSE [a \in DOMAIN h \ {object} |-> h[a]]

\* The objects a caller can give back: those it holds that lie in a slab,
\* but for the KmemCacheNode.
Freeable == {a \in DOMAIN held \ {cache_node.ptr} : slabs_of(a) # {}}

\* The push on the hart's free_list, up to the compare-and-swap: the head is
\* read and stored as the object's free pointer.
FreePush(t, object) ==
    /\ mem' = Upd(mem, object, cpu_slab[tcpu[t]].free_list)
    /\ Goto(t, "free_cas", [NoLocals EXCEPT !.c = tcpu[t], !.object = object,
                                            !.freelist = cpu_slab[tcpu[t]].free_list])
    /\ slabs' = slabs

\* The push on the freelist of the object's slab, one atomic update of the
\* counters word.
FreeToSlab(t, object) ==
    /\ mem' = Upd(mem, object, slabs[slab_of(object)].freelist)
    /\ slabs' = [slabs EXCEPT ![slab_of(object)].freelist = object]
    /\ Goto(t, "idle", NoLocals)

FreeObject(t, object) ==
    IF cpu_slab[tcpu[t]].page = slab_of(object) THEN FreePush(t, object)
    ELSE FreeToSlab(t, object)

\* A caller gives back an object it holds.
Free(t) ==
    /\ CanRun(t)
    /\ pc[t] = "idle"
    /\ nops.free < MaxFrees
    /\ \E object \in Freeable :
          /\ held' = Take(held, object)
          /\ FreeObject(t, object)
    /\ nops' = [nops EXCEPT !.free = @ + 1]
    /\ UNCHANGED <<bvars, kvars, xvars, cache, cache_node, cpu_slab, tcpu, built>>

\* The push is tried again after a failed compare-and-swap.
FreeRetry(t) ==
    /\ CanRun(t)
    /\ pc[t] = "free_retry"
    /\ FreeObject(t, loc[t].object)
    /\ UNCHANGED <<bvars, kvars, xvars, cache, cache_node, cpu_slab, tcpu, held, nops,
                   built>>

\* The compare-and-swap of the push: free_list from the head read to object.
FreeCas(t) ==
    /\ CanRun(t)
    /\ pc[t] = "free_cas"
    /\ LET l == loc[t]
           r == compare_exchange_usize(cpu_slab[l.c].free_list, l.freelist, l.object)
       IN  /\ cpu_slab' = [cpu_slab EXCEPT ![l.c].free_list = r.val]
           /\ IF r.ok THEN Goto(t, "idle", NoLocals)
              ELSE Goto(t, "free_retry", l)
    /\ UNCHANGED <<bvars, kvars, xvars, cache, cache_node, slabs, mem, tcpu, held, nops,
                   built>>

NextSlabFree ==
    \/ NextSlab
    \/ \E t \in Tasks : Free(t) \/ FreeRetry(t) \/ FreeCas(t)

SpecSlabFree == SlabInit /\ [][NextSlabFree]_vars

(***************************************************************************)
(* Properties of the buddy allocator.                                      *)
(***************************************************************************)
\* The blocks page::init leaves on the free list of order k.
FreshList(k) ==
    IF k = MAX_FREE_AREA_ORDER - 1
    THEN TopBlocks(max_pages \div PAGE_COUNT_LAST_AREA)
    ELSE {}

\* C1 -- buddy round trip: on the fresh zone alloc_pages(_, k) returns a
\* non-zero address for every order k, and the free_pages(p, k) that follows
\* completes and leaves every order's free list with the blocks it had, and
\* the same number of pages available.
C1_RoundTrip ==
    /\ (calls = 1 /\ last.op = "alloc") => last.addr # 0
    /\ (calls = 2 /\ last.op = "free") =>
          /\ status = "run"
          /\ free_pages = max_pages
          /\ \A k \in Orders :
                /\ Range(FreeList(k)) = FreshList(k)
                /\ Len(FreeList(k)) = Cardinality(FreshList(k))

\* The page index of an address of the zone.
IndexOf(addr) == (addr - ALLOC_START) \div PAGE_SIZE

\* Both halves of the order-(k+1) block at page b were freed as order-k
\* blocks and neither was handed out since.
PairFreed(b, k) ==
    /\ <<page_to_address(b, ALLOC_START), k>> \in freed
    /\ <<page_to_address(b + Pow2(k), ALLOC_START), k>> \in freed

\* The order-(k+1) buddy of the block at page b is not free: part of it is
\* allocated, or order k+1 is the top order, which has no buddies.
ParentBuddyBusy(b, k) ==
    \/ k + 1 = MAX_FREE_AREA_ORDER - 1
    \/ \E l \in live :
          BlockPages(l.addr, l.order, ALLOC_START)
            \cap (XorBit(b, k + 1) .. (XorBit(b, k + 1) + Pow2(k + 1) - 1)) # {}

\* C2 -- buddy merging: once both blocks of a buddy pair of order k are freed
\* while the pair's order-(k+1) buddy is not free, the pair is one block on
\* the order-(k+1) list and no block on the order-k list; and every merge
\* step of a free unlinks the block at page_idx XOR (1 << current order),
\* the order advancing by one per step.
C2_Merging ==
    /\ \A f \in freed :
          LET k == f[2]
              b == AndMask(IndexOf(f[1]), k + 1)
          IN  (status = "run" /\ k < MAX_FREE_AREA_ORDER - 1
                 /\ PairFreed(b, k) /\ ParentBuddyBusy(b, k))
              => /\ b \in Range(FreeList(k + 1))
                 /\ b \notin Range(FreeList(k))
                 /\ (b + Pow2(k)) \notin Range(FreeList(k))
    /\ \A i \in DOMAIN last.unlinked :
          /\ last.unlinked[i][1] = last.order + (i - 1)
          /\ last.unlinked[i][3] = XorBit(last.unlinked[i][2], last.unlinked[i][1])

\* C3 -- below the top order no two blocks on the same free list are buddies
\* of each other, after any alloc_pages / free_pages calls whose frees match
\* live allocations.
C3_NoFreeBuddies ==
    \A k \in 0 .. (MAX_FREE_AREA_ORDER - 2) :
        \A x \in Range(FreeList(k)) :
            IsPage(x) => XorBit(x, k) \notin Range(FreeList(k))

\* C4 -- alignment: a non-zero address returned by alloc_pages(_, k) is a
\* multiple of PAGE_SIZE << k, and every block on the order-k free list
\* starts at a page index that is a multiple of 2^k.
C4_Alignment ==
    /\ (last.op = "alloc" /\ last.addr # 0)
          => last.addr % Shl(PAGE_SIZE, last.order) = 0
    /\ \A k \in Orders :
          \A x \in Range(FreeList(k)) : IsPage(x) /\ x % Pow2(k) = 0

\* C5 -- out of memory never panics in the allocator layer: when the buddy
\* allocator cannot satisfy a request alloc_pages returns 0, and the
\* operations built on it (kernel-heap initialisation among them) report the
\* failure instead of panicking or going through the null result.
C5_OomReported ==
    (last.op \in {"alloc", "kmem_init"} /\ last.addr = 0) => status = "run"

\* C6 -- double free is detected: free_pages for a block that is already
\* free panics, and does so before a free list, a bitmap or the free-page
\* counter is modified.
C6_DoubleFreeDetected ==
    [][(last'.op = "dfree" /\ calls' # calls)
          => (status' = "panic" /\ UNCHANGED <<nxt, prv, bitmap, free_pages>>)]_vars


(***************************************************************************)
(* Properties of the object cache.                                         *)
(***************************************************************************)
\* The n objects of a slab: base + i * size for i < object_count.
ObjectsOf(slab) ==
    {slab_address(slab, ALLOC_START) + i * cache.size :
        i \in 0 .. (cache.object_count - 1)}

AllObjects == UNION {ObjectsOf(slab) : slab \in DOMAIN built}

\* The addresses alloc_slab must leave alone: base + n * size and above.
BeyondObjects(slab, a) ==
    a >= slab_address(slab, ALLOC_START) + cache.object_count * cache.size

\* C7: slab isolation.  Under every interleaving of allocation calls on the
\* harts, with tasks moved between harts inside the fast path, no object
\* address has been returned to two callers that both hold it (nothing is
\* freed here, so every caller still holds what it was given).
C7_SlabIsolation == \A a \in DOMAIN held : held[a] <= 1

\* C9: slab layout.  The free list alloc_slab builds for a slab is exactly
\* base, base + s, ..., base + (n - 1) * s in this order, ending with a free
\* pointer 0 in object n - 1; alloc_slab stores to no address at or beyond
\* base + n * s; and every pointer handed out is one of the n objects of a
\* slab.
C9_SlabLayout ==
    /\ \A slab \in DOMAIN built :
          /\ built[slab].chain =
                 [i \in 1 .. cache.object_count |->
                     slab_address(slab, ALLOC_START) + (i - 1) * cache.size]
          /\ \A a \in built[slab].wrote : ~BeyondObjects(slab, a)
    /\ \A a \in DOMAIN held : a \in AllObjects

\* The places an object can be in.
OnCpuFreeList(a) ==
    {c \in CPUs : a \in Range(Chain(mem, cpu_slab[c].free_list, << >>))}

OnSlabFreeList(a) ==
    {slab \in DOMAIN slabs : a \in Range(Chain(mem, slabs[slab].freelist, << >>))}

Places(a) ==
    Cardinality(OnCpuFreeList(a)) + Cardinality(OnSlabFreeList(a))
        + (IF a \in DOMAIN held THEN 1 ELSE 0)

Quiescent == status = "run" /\ \A t \in Tasks : pc[t] = "idle"

\* C10: object accounting.  Whenever no allocation call is in progress,
\* every object of every slab is in exactly one place: on the free_list of a
\* hart, on the freelist of a slab, or allocated out.
C10_ObjectAccounting == Quiescent => \A a \in AllObjects : Places(a) = 1

\* The compare-and-swap of the allocation fast path succeeds for task t in
\* this step.
CasSucceeds(t) == pc[t] = "cas" /\ pc'[t] = "idle"

\* C8: the fast-path compare-and-swap is safe against ABA and migration.
\* Whatever other tasks did to free_list between a caller's reads of head
\* and next = *head and its compare-and-swap, and whichever hart the caller
\* is on by then, a compare-and-swap that succeeds installs the object that
\* is head's successor at that moment: never a stale next.
C8_CasInstallsSuccessor ==
    [][\A t \in Tasks :
          CasSucceeds(t) => loc[t].next_object = mem[loc[t].object]]_vars

\* The slabs linked on the node partial list, in list order.
NodePartial == Walk(nxt, NodeHead, NodeHead, << >>)

\* The slabs of a per-CPU partial chain from slab on: partial.next is the
\* word of List.prev.
RECURSIVE PartialChain(_, _)
PartialChain(slab, seen) ==
    IF slab = NULL \/ slab \in seen \/ slab \notin DOMAIN prv THEN seen
    ELSE PartialChain(prv[slab], seen \cup {slab})

\* How many times the harts refer to slab: as active slab, or on a partial
\* chain.
CpuRefs(slab) ==
    Cardinality({c \in CPUs : cpu_slab[c].page = slab})
        + Cardinality({c \in CPUs : slab \in PartialChain(cpu_slab[c].partial, {})})

\* C11: a frozen slab is referred to by at most one hart, as its active slab
\* or on its partial chain, and is not linked on the node partial list;
\* every slab on the node partial list has frozen = 0.
C11_FrozenSlabs ==
    status = "run" =>
        /\ \A slab \in DOMAIN slabs :
              slabs[slab].frozen =>
                  slab \notin Range(NodePartial) /\ CpuRefs(slab) <= 1
        /\ \A slab \in Range(NodePartial) :
              slab \in DOMAIN slabs /\ ~slabs[slab].frozen

\* acquire_slab has frozen the slab of the node partial list, which is now
\* the active slab of a hart, and the node list is empty.
C11_Witness ==
    /\ status = "run"
    /\ cache_node.ptr # 0
    /\ NodePartial = << >>
    /\ \E c \in CPUs :
          /\ cpu_slab[c].page # NULL
          /\ slabs[cpu_slab[c].page].frozen
          /\ slab_address(cpu_slab[c].page, ALLOC_START) = cache_node.ptr

(***************************************************************************)
(* Page tables (mm/mmu.rs).  Addresses and entries are 64-bit words; a     *)
(* word is the set of the positions of its 1 bits, so that the shifts and  *)
(* masks of the code are computed on all 64 bits.                          *)
(***************************************************************************)
WordBits == 0 .. 63

\* x << k and x >> k on 64 bits
wshl(w, k) == {b + k : b \in {x \in w : x + k <= 63}}

wshr(w, k) == {b - k : b \in {x \in w : x >= k}}

\* (1 << n) - 1
wmask(n) == 0 .. (n - 1)

\* the word of a number below 2^31, and the number of such a word
WNat(n) == {b \in 0 .. 30 : BitOf(n, b) = 1}

RECURSIVE WVal(_)
WVal(w) == IF w = {} THEN 0
           ELSE LET b == CHOOSE x \in w : TRUE IN Pow2(b) + WVal(w \ {b})

\* a + b on 64 bits, from bit i with carry c
RECURSIVE wadd_from(_, _, _, _)
wadd_from(a, b, i, c) ==
    IF i > 63 THEN {}
    ELSE LET s == (IF i \in a THEN 1 ELSE 0) + (IF i \in b THEN 1 ELSE 0) + c
         IN  (IF s % 2 = 1 THEN {i} ELSE {}) \cup wadd_from(a, b, i + 1, s \div 2)

\* a + b: with no bit in common nothing carries and the sum is a | b
wadd(a, b) == IF a \cap b = {} THEN a \cup b ELSE wadd_from(a, b, 0, 0)

\* mmu.rs lines 87-106: the EntryBits
Valid == {0}

Read == {1}

Write == {2}

Execute == {3}

User == {4}

Global == {5}

Access == {6}

Dirty == {7}

\* mmu.rs lines 395-400
L_MASK == wmask(9)

PTE_FLAG_MASK == wmask(10)

PTE_PPN_MASK == WordBits \ wmask(10)

PTE_SIZE == 8

\* Sv39Table::LEVELS, Sv48Table::LEVELS, Sv57Table::LEVELS (lines 626, 665, 704)
LEVELS(m) == CASE m = "Sv39" -> 3 [] m = "Sv48" -> 4 [] m = "Sv57" -> 5

Modes == {"Sv39", "Sv48", "Sv57"}

\* is_bits_valid accepting every combination
is_bits_valid_any(bits) == TRUE

\* mmu::is_bits_valid, lines 129-131: bits & 0b0110 != 0b0100
is_bits_valid(bits) == bits \cap {1, 2} # {2}

\* mmu::is_bits_valid_leaf, lines 137-139
is_bits_valid_leaf(bits) == is_bits_valid(bits) /\ bits \cap {1, 2, 3} # {}

\* Entry::is_valid, is_leaf, is_branch, is_access_set (lines 189-221)
is_valid(e) == e \cap Valid # {}

is_leaf(e) == e \cap {1, 2, 3} # {}

is_branch(e) == ~is_leaf(e)

is_access_set(e) == e \cap Access # {}

\* The page an address lies in, and the index of an entry in its table.
PageOf(a) == a \ wmask(PAGE_ORDER)

IndexOfEntry(a) == WVal(wshr(a \cap wmask(PAGE_ORDER), 3))

\* entry.add(vpn): the address of entry vpn of the table at `table`
EntryAt(table, vpn) == wadd(table, wshl(vpn, get_order(PTE_SIZE)))

\* ((v.get_entry() & PTE_PPN_MASK) << 2): the table a branch entry points to
TableOf(e) == wshl(e \cap PTE_PPN_MASK, 2)

(***************************************************************************)
(* The memory the page-table code works on, as a value                     *)
(*   m = [z, start, mp, hb, fn, dfn, pt, tables, released, st]             *)
(* with z the buddy zone, start / mp its ALLOC_START and max_pages, hb     *)
(* the early cursor, fn / dfn the delegates, and st "run" or how the call  *)
(* stopped.  `ub` is what an access outside every table page does: "trap"  *)
(* (the hart faults) or "ram" (the access goes through; a load of a word   *)
(* nobody wrote stops the analysis as "wild").                             *)
(***************************************************************************)
Stop(m, how) == [m EXCEPT !.st = how]

Outside(a) == IF PageOf(a) = {} THEN "fault" ELSE "wild"

CanLoad(m, a, ub) == PageOf(a) \in m.tables \/ (ub = "ram" /\ a \in DOMAIN m.pt)

CanStore(m, a, ub) == PageOf(a) \in m.tables \/ ub = "ram"

\* Entry::get_entry through a pointer
Load(m, a) == IF a \in DOMAIN m.pt THEN m.pt[a] ELSE {}

\* Entry::set_entry through a pointer (lines 224-226)
Store(m, a, e, ub) ==
    IF CanStore(m, a, ub) THEN [m EXCEPT !.pt = Upd(m.pt, a, e)]
    ELSE Stop(m, Outside(a))

\* allocator::early_alloc_page, line 31, over early::alloc_bytes_aligned
\* (early.rs lines 43-51)
early_alloc_page(m) ==
    LET base == align_up(m.hb, PAGE_ORDER)
    IN  [m |-> [m EXCEPT !.hb = base + PAGE_SIZE], addr |-> base]

\* allocator::kernel_alloc_page, lines 36-38, over page::alloc_page
\* (page.rs lines 372-375)
kernel_page(m, r) ==
    [m |-> [m EXCEPT !.z = r.z, !.st = IF r.z.h.wild THEN "wild" ELSE m.st],
     addr |-> page_to_address(r.page, m.start)]

kernel_alloc_page(m) == kernel_page(m, do_alloc_pages(m.z, 0))

\* allocator::alloc_page, lines 49-51
alloc_page(m) == IF m.fn = "early" THEN early_alloc_page(m) ELSE kernel_alloc_page(m)

\* allocator::alloc_zeroed_page, lines 57-68: the page is zeroed, unless the
\* address is 0
zeroed(r) ==
    IF r.addr = 0 \/ r.m.st # "run" THEN [m |-> r.m, page |-> {}]
    ELSE LET page == WNat(r.addr)
         IN  [m |-> [r.m EXCEPT
                       !.pt = [a \in {x \in DOMAIN r.m.pt : PageOf(x) # page}
                                 |-> r.m.pt[a]],
                       !.tables = @ \cup {page},
                       !.released = @ \ {page}],
              page |-> page]

alloc_zeroed_page(m) == zeroed(alloc_page(m))

\* allocator::kernel_dealloc_page, lines 40-42, over page::free_page
\* (page.rs lines 433-441) for the zone index it reads
freed_page(m, r) ==
    [m EXCEPT !.z = r.z,
              !.st = IF r.panic THEN "panic" ELSE IF r.z.h.wild THEN "wild" ELSE m.st]

kernel_dealloc_page(m, addr, dbg, zone_idx) ==
    IF addr = {} THEN (IF dbg THEN Stop(m, "panic") ELSE m)
    ELSE IF ~(addr \subseteq 0 .. 30) THEN Stop(m, "wild")
    ELSE IF dbg /\ addr \cap wmask(PAGE_ORDER) # {} THEN Stop(m, "panic")
    ELSE freed_page(m, do_free_pages(m.z, address_to_page(WVal(addr), m.start), 0,
                                     m.mp, zone_idx))

\* allocator::free_page, lines 53-55; early_dealloc_page (line 34) does nothing.
\* A page whose flags were never written has no zone index to read.
free_page(m, addr, dbg) ==
    LET page == IF addr \subseteq 0 .. 30 THEN address_to_page(WVal(addr), m.start)
                ELSE NULL
        n == IF m.dfn = "early" THEN m
             ELSE IF page # NULL /\ page \notin DOMAIN m.z.fl THEN Stop(m, "wild")
             ELSE kernel_dealloc_page(m, addr, dbg,
                                      IF page = NULL THEN 0 ELSE m.z.fl[page] % 256)
    IN  IF n.st # "run" THEN n
        ELSE [n EXCEPT !.tables = @ \ {addr}, !.released = @ \cup {addr}]

\* do_map lines 432-438: an invalid entry on the way gets a new table.
map_install(r, v, ub) ==
    IF r.m.st # "run" THEN r.m
    ELSE Store(r.m, v, wshr(r.page, 2) \cup Valid, ub)

map_enter(m, v, ub) ==
    IF is_valid(Load(m, v)) THEN m ELSE map_install(alloc_zeroed_page(m), v, ub)

\* The loop of do_map, lines 431-446, from index i down to `level`: v is the
\* address of the entry reached, ppn the PPN fields read so far.
RECURSIVE map_walk(_, _, _, _, _, _, _, _, _)
map_descend(n, v_addr, p_addr, i, level, v, ppn, dbg, ub) ==
    IF n.st # "run" THEN [m |-> n, v |-> v, ppn |-> ppn]
    ELSE IF dbg /\ ~is_branch(Load(n, v))
    THEN [m |-> Stop(n, "panic"), v |-> v, ppn |-> ppn]
    ELSE map_walk(n, v_addr, p_addr, i - 1, level,
                  EntryAt(TableOf(Load(n, v)),
                          wshr(v_addr, i * 9 + PAGE_ORDER) \cap L_MASK),
                  [ppn EXCEPT ![i] = wshr(p_addr, i * 9 + PAGE_ORDER) \cap L_MASK],
                  dbg, ub)

map_walk(m, v_addr, p_addr, i, level, v, ppn, dbg, ub) ==
    IF i < level \/ m.st # "run" THEN [m |-> m, v |-> v, ppn |-> ppn]
    ELSE IF ~CanLoad(m, v, ub) THEN [m |-> Stop(m, Outside(v)), v |-> v, ppn |-> ppn]
    ELSE map_descend(map_enter(m, v, ub), v_addr, p_addr, i, level, v, ppn, dbg, ub)

\* The entry do_map builds, lines 449-452
RECURSIVE leaf_entry(_, _, _)
leaf_entry(entry, ppn, i) ==
    IF i \notin DOMAIN ppn THEN entry
    ELSE leaf_entry(entry \cup wshl(ppn[i], i * 9 + 10), ppn, i + 1)

\* do_map storing the flags without the PPN fields
map_store_flags_only(r, bits, ub) ==
    IF r.m.st # "run" THEN r.m
    ELSE Store(r.m, r.v, (bits \cap PTE_FLAG_MASK) \cup Valid, ub)

map_store(r, bits, ub) ==
    IF r.m.st # "run" THEN r.m
    ELSE Store(r.m, r.v, leaf_entry((bits \cap PTE_FLAG_MASK) \cup Valid, r.ppn, 0), ub)

\* mmu::do_map::<LEVELS>, lines 403-454.  dbg: the build has debug assertions.
do_map(m, L, root_addr, v_addr, p_addr, bits, level, dbg, ub) ==
    IF dbg /\ ~(level < L) THEN Stop(m, "panic")
    ELSE IF dbg /\ v_addr \cap wmask(level * 9 + PAGE_ORDER) # {} THEN Stop(m, "panic")
    ELSE IF dbg /\ p_addr \cap wmask(level * 9 + PAGE_ORDER) # {} THEN Stop(m, "panic")
    ELSE IF ~is_bits_valid_leaf(bits) THEN Stop(m, "panic")
    ELSE LET ppn_mask == wmask(44 - (L - 1) * 9)
             vpn == wshr(v_addr, (L - 1) * 9 + PAGE_ORDER) \cap L_MASK
             ppn == [i \in 0 .. (L - 1) |->
                       IF i = L - 1
                       THEN wshr(p_addr, (L - 1) * 9 + PAGE_ORDER) \cap ppn_mask
                       ELSE {}]
         IN  map_store(map_walk(m, v_addr, p_addr, L - 2, level,
                                EntryAt(root_addr, vpn), ppn, dbg, ub),
                       bits, ub)

\* mmu::do_unmap::<LEVELS>, lines 458-481: the loop from level i, `entry` the
\* table reached.  ret is the value returned.
RECURSIVE unmap_walk(_, _, _, _, _, _)
unmap_walk(m, entry, v_addr, i, dbg, ub) ==
    IF i < 0 THEN [m |-> IF dbg THEN Stop(m, "panic") ELSE m, ret |-> FALSE]
    ELSE LET v == EntryAt(entry, wshr(v_addr, i * 9 + PAGE_ORDER) \cap L_MASK)
             e == Load(m, v)
         IN  IF ~CanLoad(m, v, ub) THEN [m |-> Stop(m, Outside(v)), ret |-> FALSE]
             ELSE IF ~is_valid(e)
                  THEN [m |-> IF dbg THEN Stop(m, "panic") ELSE m, ret |-> FALSE]
             ELSE IF is_leaf(e) THEN [m |-> Store(m, v, {}, ub), ret |-> TRUE]
             ELSE unmap_walk(m, TableOf(e), v_addr, i - 1, dbg, ub)

\* do_unmap reporting a change whatever it found
do_unmap_true(m, L, root_addr, v_addr, dbg, ub) ==
    [unmap_walk(m, root_addr, v_addr, L - 1, dbg, ub) EXCEPT !.ret = TRUE]

do_unmap(m, L, root_addr, v_addr, dbg, ub) ==
    unmap_walk(m, root_addr, v_addr, L - 1, dbg, ub)

\* The result of a translation that found nothing.
None == {-1}

\* mmu::do_virt2phys::<LEVELS>, lines 488-520: the loop from level i
RECURSIVE virt2phys_walk(_, _, _, _, _)
virt2phys_walk(m, entry, v_addr, i, ub) ==
    IF i < 0 THEN [st |-> m.st, ret |-> None]
    ELSE LET shift == i * 9 + PAGE_ORDER
             v == EntryAt(entry, wshr(v_addr, shift) \cap L_MASK)
             e == Load(m, v)
             mask == wmask(shift)
         IN  IF ~CanLoad(m, v, ub) THEN [st |-> Outside(v), ret |-> None]
             ELSE IF ~is_valid(e) THEN [st |-> m.st, ret |-> None]
             ELSE IF is_leaf(e)
                  THEN IF ~is_access_set(e) THEN [st |-> m.st, ret |-> None]
                       ELSE [st |-> m.st,
                             ret |-> (wshl(e, 2) \ mask) \cup (v_addr \cap mask)]
             ELSE virt2phys_walk(m, TableOf(e), v_addr, i - 1, ub)

do_virt2phys(m, L, root_addr, v_addr, ub) ==
    virt2phys_walk(m, root_addr, v_addr, L - 1, ub)

\* The entries of the table at addr that were written, and the one of the
\* lowest index among a set of them.
EntriesOf(m, addr) == {a \in DOMAIN m.pt : PageOf(a) = addr}

FirstEntry(es) == CHOOSE a \in es : \A b \in es : IndexOfEntry(a) <= IndexOfEntry(b)

\* leaf_table_is_used taking every table for used
leaf_table_kept(m, addr) == TRUE

\* leaf_table_is_used taking every table for unused
leaf_table_dropped(m, addr) == FALSE

\* mmu::leaf_table_is_used, lines 522-530
leaf_table_is_used(m, addr) == \E a \in EntriesOf(m, addr) : is_valid(m.pt[a])

\* mmu::walk_and_free_unused, lines 532-566: the loop of lines 540-563 over
\* the entries `rest` of the table still to visit (an entry never written is
\* 0 and skipped), with the `valid` and `update` it has so far.
RECURSIVE free_walk(_, _, _, _, _, _, _, _)
walk_and_free_unused(m, addr, level, max_level, dbg, ub) ==
    IF addr \notin m.tables
    THEN [m |-> Stop(m, Outside(addr)), valid |-> TRUE, update |-> FALSE]
    ELSE IF level >= max_level
    THEN [m |-> m, valid |-> leaf_table_is_used(m, addr), update |-> FALSE]
    ELSE free_walk(m, EntriesOf(m, addr), level, max_level, FALSE, FALSE, dbg, ub)

\* lines 552-560: a sub-table with no valid entry is freed and its slot cleared
sub_done(v, e, w, dbg, ub) ==
    IF w.m.st # "run" \/ w.valid THEN w.m
    ELSE Store(free_page(w.m, TableOf(e), dbg), v, {}, ub)

free_branch(v, e, w, rest, level, max_level, valid, update, dbg, ub) ==
    free_walk(sub_done(v, e, w, dbg, ub), rest, level, max_level, valid \/ w.valid,
              IF w.valid THEN update \/ w.update ELSE TRUE, dbg, ub)

free_entry(m, v, e, rest, level, max_level, valid, update, dbg, ub) ==
    IF ~is_valid(e) THEN free_walk(m, rest, level, max_level, valid, update, dbg, ub)
    ELSE IF is_leaf(e) THEN free_walk(m, rest, level, max_level, TRUE, update, dbg, ub)
    ELSE free_branch(v, e, walk_and_free_unused(m, TableOf(e), level + 1, max_level,
                                                dbg, ub),
                     rest, level, max_level, valid, update, dbg, ub)

free_first(m, v, rest, level, max_level, valid, update, dbg, ub) ==
    free_entry(m, v, Load(m, v), rest \ {v}, level, max_level, valid, update, dbg, ub)

free_walk(m, rest, level, max_level, valid, update, dbg, ub) ==
    IF rest = {} \/ m.st # "run" THEN [m |-> m, valid |-> valid, update |-> update]
    ELSE free_first(m, FirstEntry(rest), rest, level, max_level, valid, update, dbg, ub)

\* mmu::do_free_unused_entry::<LEVELS>, lines 576-597: the loop over the
\* entries `rest` of the root still to visit.
RECURSIVE root_walk(_, _, _, _, _, _)
root_branch(v, e, w, rest, L, update, dbg, ub) ==
    root_walk(sub_done(v, e, w, dbg, ub), rest, L,
              IF w.valid THEN update \/ w.update ELSE TRUE, dbg, ub)

root_entry(m, v, e, rest, L, update, dbg, ub) ==
    IF ~(is_valid(e) /\ is_branch(e)) THEN root_walk(m, rest, L, update, dbg, ub)
    ELSE root_branch(v, e, walk_and_free_unused(m, TableOf(e), 2, L, dbg, ub),
                     rest, L, update, dbg, ub)

root_first(m, v, rest, L, update, dbg, ub) ==
    root_entry(m, v, Load(m, v), rest \ {v}, L, update, dbg, ub)

root_walk(m, rest, L, update, dbg, ub) ==
    IF rest = {} \/ m.st # "run" THEN [m |-> m, ret |-> update]
    ELSE root_first(m, FirstEntry(rest), rest, L, update, dbg, ub)

do_free_unused_entry(m, L, root_addr, dbg, ub) ==
    root_walk(m, EntriesOf(m, root_addr), L, FALSE, dbg, ub)

(***************************************************************************)
(* The page-table code as a state machine: a root table of some mode, then *)
(* map, unmap, virt_to_phys and free_unused_entry calls on it.             *)
(***************************************************************************)
MaxMmuCalls == 5

\* The order of the one block other kernel code leaves free in a busy zone.
SpareOrder == 2

\* The zone page::init builds, as a value (page.rs lines 296-352).
FreshZone(L) ==
    [h |-> Heap(InitNext(L.max_alloc_large_pages), InitPrev(L.max_alloc_large_pages)),
     bm |-> [k \in 0 .. (MAX_FREE_AREA_ORDER - 2) |-> {}],
     fl |-> << >>, free |-> L.alloc_pages, unl |-> << >>]

\* The zone after other kernel code took one block of each order from k down
\* to SpareOrder.
RECURSIVE BusyZone(_, _)
BusyZone(z, k) ==
    IF k < SpareOrder THEN z ELSE BusyZone(do_alloc_pages(z, k).z, k - 1)

\* The HEAP_BASE of the runs: page::init leaves it where it was.
MmuHeapBase == MEM_START + ALIGNMENT \div 2

\* The memory as the calls find it.
Machine ==
    [z |-> Zone, start |-> ALLOC_START, mp |-> max_pages, hb |-> HEAP_BASE,
     fn |-> ALLOC_FN, dfn |-> DEALLOC_FN, pt |-> pt, tables |-> tables,
     released |-> released, st |-> "run"]

\* The memory before the root table is made: one top-order block, fresh or
\* busy, and the delegates both early or both kernel.
BootMachine(L, heap_base, fn, busy) ==
    [z |-> IF busy THEN BusyZone(FreshZone(L), MAX_FREE_AREA_ORDER - 2)
           ELSE FreshZone(L),
     start |-> L.alloc_start, mp |-> L.alloc_pages, hb |-> heap_base,
     fn |-> fn, dfn |-> fn, pt |-> << >>, tables |-> {}, released |-> {},
     st |-> "run"]

\* The state a page-table call leaves.
MmuLeave(m) ==
    /\ status' = m.st
    /\ nxt' = m.z.h.nxt
    /\ prv' = m.z.h.prv
    /\ bitmap' = m.z.bm
    /\ flags' = m.z.fl
    /\ free_pages' = m.z.free
    /\ HEAP_BASE' = m.hb
    /\ pt' = m.pt
    /\ tables' = m.tables
    /\ released' = m.released

\* mmu::create_root_table(mode), lines 322-329, over cast_to_table (lines
\* 308-319), on a zone page::init has built.
MmuInit ==
    /\ \E tm \in Modes, fn \in {"early", "kernel"}, busy \in BOOLEAN :
         \E L \in {InitLayout(MmuHeapBase, MEM_START, 2 * ALIGNMENT)} :
           \E r \in {alloc_zeroed_page(BootMachine(L, MmuHeapBase, fn, busy))} :
             /\ L.asserted
             /\ r.page # {}
             /\ table_mode = tm
             /\ root = r.page
             /\ ALLOC_FN = fn
             /\ DEALLOC_FN = fn
             /\ nxt = r.m.z.h.nxt
             /\ prv = r.m.z.h.prv
             /\ bitmap = r.m.z.bm
             /\ flags = r.m.z.fl
             /\ free_pages = r.m.z.free
             /\ max_pages = L.alloc_pages
             /\ ALLOC_START = L.alloc_start
             /\ HEAP_BASE = r.m.hb
             /\ zone_mem_size = 2 * ALIGNMENT
             /\ dt_regions = << <<MEM_START, <<2 * ALIGNMENT>> >> >>
             /\ mem_regions = << <<MEM_START, 2 * ALIGNMENT>> >>
             /\ pt = r.m.pt
             /\ tables = r.m.tables
             /\ released = r.m.released
    /\ status = "run"
    /\ live = {}
    /\ freed = {}
    /\ calls = 0
    /\ last = [op |-> "init", order |-> 0, addr |-> 0, unlinked |-> << >>]
    /\ mlast = [op |-> "none"]
    /\ mcalls = 0
    /\ KmemStatics
    /\ SlabUnused
    /\ SchedUnused
    /\ PreemptUnused

\* What an access outside every table page may do.
Outcomes == {"trap", "ram"}

MmuFix == <<max_pages, ALLOC_START, live, freed, calls, last, ALLOC_FN, DEALLOC_FN,
            table_mode, root, kvars, svars, schvars, pvars,
            lvars>>

\* Table::map(v_addr, p_addr, bits, level), lines 638-640, 677-679, 716-718.
Map(v_addr, p_addr, bits, level) ==
    /\ status = "run"
    /\ mcalls < MaxMmuCalls
    /\ \E dbg \in BOOLEAN, ub \in Outcomes :
         \E m \in {do_map(Machine, LEVELS(table_mode), root, v_addr, p_addr, bits,
                          level, dbg, ub)} :
           MmuLeave(m)
    /\ mlast' = [op |-> "map", va |-> v_addr, pa |-> p_addr, bits |-> bits,
                 level |-> level, ret |-> None]
    /\ mcalls' = mcalls + 1
    /\ UNCHANGED MmuFix

\* Table::unmap(v_addr), lines 642-644, 681-683, 720-722.
Unmap(v_addr) ==
    /\ status = "run"
    /\ mcalls < MaxMmuCalls
    /\ \E dbg \in BOOLEAN, ub \in Outcomes :
         \E r \in {do_unmap(Machine, LEVELS(table_mode), root, v_addr, dbg, ub)} :
           /\ MmuLeave(r.m)
           /\ mlast' = [op |-> "unmap", va |-> v_addr, pa |-> {}, bits |-> {},
                        level |-> 0, ret |-> r.ret]
    /\ mcalls' = mcalls + 1
    /\ UNCHANGED MmuFix

\* Table::virt_to_phys(v_addr), lines 646-648, 685-687, 724-726.
VirtToPhys(v_addr) ==
    /\ status = "run"
    /\ mcalls < MaxMmuCalls
    /\ \E ub \in Outcomes :
         \E r \in {do_virt2phys(Machine, LEVELS(table_mode), root, v_addr, ub)} :
           /\ status' = r.st
           /\ mlast' = [op |-> "virt_to_phys", va |-> v_addr, pa |-> {}, bits |-> {},
                        level |-> 0, ret |-> r.ret]
    /\ mcalls' = mcalls + 1
    /\ UNCHANGED <<nxt, prv, bitmap, flags, free_pages, HEAP_BASE, pt, tables, released>>
    /\ UNCHANGED MmuFix

\* Table::free_unused_entry(), lines 650-652, 689-691, 728-730.
FreeUnusedEntry ==
    /\ status = "run"
    /\ mcalls < MaxMmuCalls
    /\ \E dbg \in BOOLEAN, ub \in Outcomes :
         \E r \in {do_free_unused_entry(Machine, LEVELS(table_mode), root, dbg, ub)} :
           /\ MmuLeave(r.m)
           /\ mlast' = [op |-> "free_unused_entry", va |-> {}, pa |-> {}, bits |-> {},
                        level |-> 0, ret |-> r.ret]
    /\ mcalls' = mcalls + 1
    /\ UNCHANGED MmuFix

\* a & !((1 << (level * 9 + PAGE_ORDER)) - 1): the address aligned to the page
\* size of the level
AlignTo(a, level) == a \ wmask(level * 9 + PAGE_ORDER)

Levels == 0 .. (LEVELS(table_mode) - 1)

\* The calls of the long runs: three pages that share the root slot or not,
\* mapped as 4 KiB or 2 MiB pages.
RunVAs == {{31}, {31, 21}, {32}}

RunBits == Read \cup Write \cup Access

MapCall == \E va \in RunVAs, level \in 0 .. 1 : Map(va, {31}, RunBits, level)

UnmapCall == \E va \in RunVAs : Unmap(va)

NextMmu == MapCall \/ UnmapCall \/ FreeUnusedEntry

SpecMmu == MmuInit /\ [][NextMmu]_vars

\* The calls of the round trip: one map on the empty root, of any level and
\* permission bits, then translations inside and around the page mapped.
TripBases == {{31}, {12, 21, 30, 39, 48}, {20, 29, 38, 47, 55}}

TripBits == {Read \cup Write \cup Global \cup Access \cup Dirty,
             Read \cup Execute \cup Access,
             Read \cup Write,
             Write \cup Access,
             Write \cup Execute \cup Access \cup Dirty,
             Access}

TripOffsets == {{}, {2, 4, 5, 9}, {2, 4, 5, 9, 12}, wmask(12), wmask(21), {29}, {38},
                wmask(48)}

FirstMap ==
    /\ mcalls = 0
    /\ \E vb \in TripBases, pb \in TripBases, bits \in TripBits, level \in Levels :
         Map(AlignTo(vb, level), AlignTo(pb, level), bits, level)

Translate ==
    /\ mlast.op = "map"
    /\ \E off \in TripOffsets : VirtToPhys(wadd(mlast.va, off))

NextTrip == FirstMap \/ Translate

SpecTrip == MmuInit /\ [][NextTrip]_vars

(***************************************************************************)
(* Properties of the page tables.                                          *)
(***************************************************************************)
\* The translation that follows the map on the empty root asks for an address
\* of the page mapped.
InMappedPage ==
    /\ mlast.op = "map"
    /\ mcalls = 1
    /\ mlast'.op = "virt_to_phys"
    /\ AlignTo(mlast'.va, mlast.level) = mlast.va

\* C12: for each of Sv39, Sv48 and Sv57 and each level L of the mode, after
\* map(va, pa, bits, L) on an empty root, with va and pa aligned to the page
\* size of L and leaf bits that include Access, virt_to_phys(va + off) returns
\* pa + off for every off below that page size.
C12_RoundTrip ==
    [][(InMappedPage /\ Access \subseteq mlast.bits /\ status' = "run")
         => mlast'.ret = wadd(mlast.pa, mlast'.va \cap wmask(mlast.level * 9 + PAGE_ORDER))
      ]_vars

\* Sv39, level 2: after map(0x8000_0000, 0x8000_0000), virt_to_phys(0x8000_1234)
\* has returned 0x8000_1234.
C12_Witness ==
    /\ table_mode = "Sv39"
    /\ status = "run"
    /\ mlast.op = "virt_to_phys"
    /\ mlast.va = {31, 12, 9, 5, 4, 2}
    /\ mlast.ret = {31, 12, 9, 5, 4, 2}
    /\ EntryAt(root, {1}) \in DOMAIN pt
    /\ is_leaf(pt[EntryAt(root, {1})])
    /\ DOMAIN pt = {EntryAt(root, {1})}

\* C15: map with W set and R clear in bits (bits & 0b110 = 0b100) is rejected,
\* in every mode and at every level: the call stops in a panic, no page-table
\* entry is installed or altered and no table page is allocated.
C15_RejectsWriteOnly ==
    [][(mlast'.op = "map" /\ mcalls' = mcalls + 1 /\ mlast'.bits \cap {1, 2} = {2})
         => /\ status' = "panic"
            /\ pt' = pt
            /\ tables' = tables
            /\ HEAP_BASE' = HEAP_BASE
            /\ free_pages' = free_pages
      ]_vars

\* A map of a 4 KiB page with W, X, A and D but not R was refused on the empty
\* root of an Sv57 table, where it would have needed four new tables.
C15_Witness ==
    /\ table_mode = "Sv57"
    /\ mlast.op = "map"
    /\ mlast.level = 0
    /\ mlast.bits = Write \cup Execute \cup Access \cup Dirty
    /\ status = "panic"
    /\ pt = << >>
    /\ tables = {root}

\* The entry pt holds at address a; an entry never written is 0.
EntryOf(a) == IF a \in DOMAIN pt THEN pt[a] ELSE {}

\* The walk for v_addr from the table `table` of level i goes through tables
\* only and reaches an entry that is not valid.
RECURSIVE ReachesInvalid(_, _, _)
ReachesInvalid(table, v_addr, i) ==
    /\ i >= 0
    /\ table \in tables
    /\ LET e == EntryOf(EntryAt(table, wshr(v_addr, i * 9 + PAGE_ORDER) \cap L_MASK))
       IN  IF ~is_valid(e) THEN TRUE
           ELSE IF is_leaf(e) THEN FALSE
           ELSE ReachesInvalid(TableOf(e), v_addr, i - 1)

\* The step is an unmap of an address that has no mapping.
UnmapOfUnmapped ==
    /\ mlast'.op = "unmap"
    /\ mcalls' = mcalls + 1
    /\ ReachesInvalid(root, mlast'.va, LEVELS(table_mode) - 1)

\* C14 as stated: unmap(va) of an address whose walk reaches an invalid entry
\* panics, never returning normally, and modifies no page-table entry.
C14_UnmapPanics ==
    [][UnmapOfUnmapped => (status' = "panic" /\ pt' = pt)]_vars

\* C14: unmap(va) of an address whose walk reaches an invalid entry modifies
\* no page-table entry; it panics in a build with debug assertions and returns
\* false in a build without them.
C14_UnmapRefuses ==
    [][UnmapOfUnmapped
         => /\ pt' = pt
            /\ \/ status' = "panic"
               \/ status' = "run" /\ mlast'.ret = FALSE
      ]_vars

\* An unmap of an address without mapping has returned false while another
\* address was mapped.
C14_Witness ==
    /\ status = "run"
    /\ mlast.op = "unmap"
    /\ mlast.ret = FALSE
    /\ \E a \in DOMAIN pt : is_valid(pt[a]) /\ is_leaf(pt[a])

\* The valid branch entries of the tables.
BranchEntries ==
    {a \in DOMAIN pt : PageOf(a) \in tables /\ is_valid(pt[a]) /\ is_branch(pt[a])}

\* The table at addr has a valid entry.
HasValid(addr) == \E a \in DOMAIN pt : PageOf(a) = addr /\ is_valid(pt[a])

\* C13: when free_unused_entry has returned, every sub-table that had no
\* valid entry, at any depth, is freed and the branch slot that pointed to it
\* is cleared: no valid branch entry points to an entirely invalid table, and
\* the root table is not freed.
C13_FreeUnused ==
    (status = "run" /\ mlast.op = "free_unused_entry")
        => /\ root \in tables
           /\ \A a \in BranchEntries :
                TableOf(pt[a]) \in tables /\ HasValid(TableOf(pt[a]))

\* An Sv48 table after free_unused_entry: every leaf was unmapped, the three
\* tables under the root were freed and the root is empty.
C13_Witness ==
    /\ status = "run"
    /\ table_mode = "Sv48"
    /\ mlast.op = "free_unused_entry"
    /\ mlast.ret = TRUE
    /\ tables = {root}
    /\ Cardinality(released) = 3
    /\ ~HasValid(root)

\* C16: after any sequence of map, unmap and free_unused_entry calls, those
\* map calls included in which the allocator returns 0, every valid branch
\* entry holds the address of a table page the allocator returned and that was
\* not freed since; none designates physical page 0 or a freed page.
C16_BranchTargets ==
    \A a \in BranchEntries : TableOf(pt[a]) \in tables

(***************************************************************************)
(* init::early_setup (init/mod.rs lines 62-115) from the return of         *)
(* page::init on: kmem::init, then create_kernel_identity_map and          *)
(* map_ram_region_identity (mm/mod.rs lines 104-157).  set_heap_base_addr  *)
(* has stored the heap base, page::init has read it and left it in place,  *)
(* and ALLOC_FN / DEALLOC_FN hold the values of their initialisers         *)
(* (mmu.rs lines 46-47).  early_setup makes no call of                     *)
(* enable_page_allocator.                                                  *)
(***************************************************************************)
BootInit ==
    /\ \E hb \in HeapBases, ms \in MemSizes :
         /\ ZoneInit(hb, ms)
         /\ HEAP_BASE = hb
    /\ KmemStatics
    /\ SlabUnused
    /\ SchedUnused
    /\ PreemptUnused
    /\ ALLOC_FN = "early"
    /\ DEALLOC_FN = "early"
    /\ table_mode = "Bare"
    /\ root = {}
    /\ pt = << >>
    /\ tables = {}
    /\ released = {}
    /\ mlast = [op |-> "none"]
    /\ mcalls = 0

\* mmu::create_root_table(mode), lines 322-339, over cast_to_table (lines
\* 308-315), as create_kernel_identity_map calls it (mm/mod.rs line 105).
CreateRootTable(mode) ==
    /\ status = "run"
    /\ KMEM_ALLOC # 0
    /\ root = {}
    /\ \E r \in {alloc_zeroed_page(Machine)} :
         /\ MmuLeave(r.m)
         /\ root' = r.page
    /\ table_mode' = mode
    /\ mlast' = [op |-> "create_root_table", va |-> {}, pa |-> {}, bits |-> {},
                 level |-> 0, ret |-> None]
    /\ UNCHANGED <<max_pages, ALLOC_START, live, freed, calls, last, ALLOC_FN,
                   DEALLOC_FN, mcalls, kvars, svars, schvars,
                   pvars, lvars>>

\* The bits of the device entries (mm/mod.rs lines 127-128) and of the RAM
\* entries (lines 146-147).
DeviceBits == Access \cup Dirty \cup Global \cup Read \cup Write

RamBits == Access \cup Dirty \cup Global \cup Read \cup Write \cup Execute

ORDER_2MB == 21

ORDER_1GB == 30

\* Starts of 2 MiB steps inside VIRT_MEM_MAP_2MB (virt_qemu.rs lines 49-61):
\* CLINT, PCIE_PIO, PLATFORM_BUS and its second step, UART.
Map2mbStarts == {{25}, {25, 24}, {26}, {26, ORDER_2MB}, {28}}

\* One step of map_identity (mm/mod.rs lines 86-92) over the 2 MiB list.
BootMap2mb ==
    /\ root # {}
    /\ mlast.op = "create_root_table" \/ (mlast.op = "map" /\ mlast.level = 1)
    /\ \E start \in Map2mbStarts : Map(start, start, DeviceBits, 1)

\* The step of map_identity over the 1 GiB list, VIRT_MEM_MAP_1GB
\* (virt_qemu.rs lines 64-66).
BootMap1gb ==
    /\ root # {}
    /\ mlast.op = "map"
    /\ mlast.level = 1
    /\ Map({ORDER_1GB}, {ORDER_1GB}, DeviceBits, 2)

\* map_ram_region_identity (mm/mod.rs lines 141-157): one step per GiB of the
\* region, which starts at 0x8000_0000.
BootMapRam ==
    /\ root # {}
    /\ mlast.op = "map"
    /\ mlast.level = 2
    /\ \E start \in {{31}, {31, ORDER_1GB}} : Map(start, start, RamBits, 2)

NextBoot ==
    \/ KmemInit
    \/ CreateRootTable("Sv39")
    \/ BootMap2mb
    \/ BootMap1gb
    \/ BootMapRam

SpecBoot == BootInit /\ [][NextBoot]_vars

\* C17: once the buddy allocator is initialised, every page-table page is
\* requested with the page allocator enabled and comes from the buddy
\* allocator: the step that adds a page-table page runs with ALLOC_FN set to
\* kernel_alloc_page and leaves the bump cursor HEAP_BASE where it was.
C17_HandOver ==
    [][tables' # tables => (ALLOC_FN = "kernel" /\ HEAP_BASE' = HEAP_BASE)]_vars

(***************************************************************************)
(* The scheduler (sched/scheduler.rs, sched/mod.rs) and the trap handler   *)
(* (sc/trap.rs).  List nodes are ready_head and the `list` field of every  *)
(* TaskInfo; a task is named by the number of its node.  The calls of one  *)
(* run do not overlap: the scheduler API is called with preemption         *)
(* disabled (sched/mod.rs line 20).                                        *)
(***************************************************************************)
\* Kernel threads built in one run.
NumThreads == 2

\* Scheduler and trap calls in one run.
MaxSchedCalls == 5

\* TASK_LIST.ready_head
ready_head == 0

\* The tasks build_kernel_thread made.
Threads == 1 .. NumThreads

\* TASK_LIST.cpu_idle on hart c: the idle task build_idle_thread made in the
\* slot of c (scheduler.rs lines 14-18).
cpu_idle(c) == NumThreads + 1 + c

IdleTasks == {cpu_idle(c) : c \in CPUs}

AllTasks == Threads \cup IdleTasks

\* TaskInfo::get_trap_frame_ptr: the address of the frame field of the task.
get_trap_frame_ptr(t) == [task |-> t, field |-> "frame"]

\* smp::current_cpu_frame on hart c.
current_cpu_frame(c) == [cpu |-> c, field |-> "frame"]

\* list::insert_before
insert_before(h, node, entry) ==
    IF h.wild \/ node \notin DOMAIN h.prv
    THEN Wild(h)
    ELSE LET p1 == Upd(h.prv, entry, h.prv[node])
             n1 == Upd(h.nxt, entry, node)
         IN  IF p1[node] \notin DOMAIN n1
             THEN Wild(h)
             ELSE [h EXCEPT !.nxt = Upd(n1, p1[node], entry),
                            !.prv = Upd(p1, node, entry)]

tail_append_at_head(h, head, entry) == insert_after(h, head, entry)

\* list::tail_append
tail_append(h, head, entry) == insert_before(h, head, entry)

\* The tasks linked on the ready list, from the head on.
ReadySeq == Walk(ready_list.nxt, ready_head, ready_head, << >>)

\* The scheduler as the functions find it.
Sched == [h |-> ready_list, status |-> task_status]

\* scheduler::find_ready_task_or_idle on hart c
find_ready_task_or_idle(s, c) ==
    IF is_empty(s.h, ready_head)
    THEN [task |-> cpu_idle(c), s |-> s, empty |-> TRUE]
    ELSE LET next == s.h.nxt[ready_head]
         IN  [task |-> next, s |-> [s EXCEPT !.h = list_delete(s.h, next)],
              empty |-> FALSE]

\* The test of line 47: the task is the idle task of the calling hart.
is_cpu_idle(c, t) == cpu_idle(c) = t

\* scheduler::ready_list_add_task(task) on hart c
ready_list_add_task(s, c, t) ==
    LET s1 == [s EXCEPT !.status = Upd(s.status, t, "Ready")]
    IN  IF is_cpu_idle(c, t) THEN s1
        ELSE [s1 EXCEPT !.h = tail_append(s1.h, ready_head, t)]

\* The code of an interrupt or exception: (cause << 1) >> 1
exp_code(cause) == WVal(cause \ {63})

\* A test of SPP that never sees S-mode.
trap_from_s_mode_never(sstatus) == FALSE

\* trap_from_s_mode(status): SPP, bit 8 of sstatus
trap_from_s_mode(sstatus) == 8 \in sstatus

\* A handler that resumes every trap at the pc it was taken at.
handle_trap_resume(epc, cause, sstatus) == [pc |-> epc, st |-> "run"]

\* sc::trap::handle_trap(epc, val, cause, status, frame, hart): the pc it
\* returns, or the panic.  No branch calls the scheduler.
handle_trap(epc, cause, sstatus) ==
    LET code == exp_code(cause)
        ret(to) == [pc |-> to, st |-> "run"]
        panic == [pc |-> epc, st |-> "panic"]
    IN  IF 63 \in cause
        THEN IF code \in {1, 5, 9} THEN ret(epc) ELSE panic
        ELSE IF code \in {0, 1, 2} \cup {4, 5, 6, 7}
             THEN IF trap_from_s_mode(sstatus) THEN panic ELSE ret(epc)
        ELSE IF code = 3 THEN ret(epc + 2)
        ELSE IF code = 8 THEN ret(epc + 4)
        ELSE IF code \in {12, 13, 15} THEN ret(epc + 4)
        ELSE panic

\* The asm switch_to_task(trap_frame) on hart c: the frame pointer goes to
\* sscratch and the hart leaves by sret into the task of the frame.
switch_to_task(c, trap_frame) ==
    [sscratch |-> [sscratch EXCEPT ![c] = trap_frame],
     running |-> [running EXCEPT ![c] = trap_frame.task]]

\* sched::init (sched/mod.rs lines 100-106) over init_and_set_idle_task: the
\* ready list is empty and every hart has its idle task; the kernel threads
\* are built, their TaskInfo zeroed by kzalloc (kernel_thread.rs line 29),
\* which is status Ready (task.rs line 16).
SchedInit ==
    /\ ZoneInit(MEM_START + ALIGNMENT \div 2, 2 * ALIGNMENT)
    /\ KmemStatics
    /\ SlabUnused
    /\ MmuUnused
    /\ PreemptUnused
    /\ ready_list = Heap([n \in {ready_head} |-> ready_head],
                         [n \in {ready_head} |-> ready_head])
    /\ task_status = [t \in Threads |-> "Ready"]
    /\ cpu_stack = << >>
    /\ running = [c \in CPUs |-> NULL]
    /\ sscratch = [c \in CPUs |-> NULL]
    /\ added = << >>
    /\ dispatched = << >>
    /\ slast = [op |-> "init"]
    /\ scalls = 0

\* How a run of the scheduler ends when a list operation went through memory
\* that is no list node.
SchedStatus(h) == IF h.wild THEN "wild" ELSE "run"

\* sched::ready_list_add_task(task) called on hart c, for a task that is not
\* on the ready list.
ReadyListAddTask(c, t) ==
    /\ status = "run"
    /\ scalls < MaxSchedCalls
    /\ t \notin Range(ReadySeq)
    /\ \E s \in {ready_list_add_task(Sched, c, t)} :
         /\ ready_list' = [s.h EXCEPT !.wild = FALSE]
         /\ task_status' = s.status
         /\ added' = IF s.h = ready_list THEN added ELSE Append(added, t)
         /\ status' = SchedStatus(s.h)
    /\ slast' = [op |-> "ready_list_add_task", cpu |-> c, task |-> t]
    /\ scalls' = scalls + 1
    /\ UNCHANGED <<cpu_stack, running, sscratch, dispatched>>
    /\ UNCHANGED <<nxt, prv, bitmap, flags, free_pages, max_pages, ALLOC_START,
                   live, freed, calls, last, kvars, svars, mvars, pvars, lvars>>

\* sched::schedule() called on hart c (sched/mod.rs lines 114-154); every
\* task of the run is a kernel task.
Schedule(c) ==
    /\ status = "run"
    /\ scalls < MaxSchedCalls
    /\ \E r \in {find_ready_task_or_idle(Sched, c)} :
         /\ ready_list' = [r.s.h EXCEPT !.wild = FALSE]
         /\ status' = SchedStatus(r.s.h)
         /\ cpu_stack' = Upd(cpu_stack, r.task, current_cpu_frame(c))
         /\ task_status' = Upd(r.s.status, r.task, "Running")
         /\ \E sw \in {switch_to_task(c, get_trap_frame_ptr(r.task))} :
              /\ sscratch' = sw.sscratch
              /\ running' = sw.running
         /\ dispatched' = IF r.empty THEN dispatched ELSE Append(dispatched, r.task)
         /\ slast' = [op |-> "schedule", cpu |-> c, task |-> r.task,
                      empty |-> r.empty]
    /\ scalls' = scalls + 1
    /\ UNCHANGED added
    /\ UNCHANGED <<nxt, prv, bitmap, flags, free_pages, max_pages, ALLOC_START,
                   live, freed, calls, last, kvars, svars, mvars, pvars, lvars>>

\* scause of the supervisor timer interrupt: the interrupt bit and code 5.
TimerCause == {63} \cup WNat(5)

\* The causes of the runs: the timer, software and external interrupts, an
\* interrupt with no branch, ecall from U-mode, breakpoint, load access fault.
TrapCauses == {TimerCause, {63} \cup WNat(1), {63} \cup WNat(9), {63} \cup WNat(2),
               WNat(8), WNat(3), WNat(5)}

\* sstatus as the hart saved it: SPP, bit 8, clear or set.
TrapStatus == {{}, {8}}

\* The pc the runs are interrupted at.
TrapEpc == 4096

\* The trap vector on hart c, from the trap to the sret: it calls handle_trap
\* with sepc, scause and sstatus, writes the pc returned to sepc, restores the
\* registers and sscratch and returns to the interrupted task.
TrapVector(c, cause, sstatus) ==
    /\ status = "run"
    /\ scalls < MaxSchedCalls
    /\ running[c] # NULL
    /\ \E r \in {handle_trap(TrapEpc, cause, sstatus)} :
         /\ status' = r.st
         /\ slast' = [op |-> "trap", cpu |-> c, task |-> running[c],
                      cause |-> cause, sstatus |-> sstatus, pc |-> r.pc]
    /\ scalls' = scalls + 1
    /\ UNCHANGED <<ready_list, task_status, cpu_stack, running, sscratch, added,
                   dispatched>>
    /\ UNCHANGED <<nxt, prv, bitmap, flags, free_pages, max_pages, ALLOC_START,
                   live, freed, calls, last, kvars, svars, mvars, pvars, lvars>>

AddCall == \E c \in CPUs, t \in AllTasks : ReadyListAddTask(c, t)

ScheduleCall == \E c \in CPUs : Schedule(c)

TrapCall == \E c \in CPUs, cause \in TrapCauses, sstatus \in TrapStatus :
                TrapVector(c, cause, sstatus)

NextSched == AddCall \/ ScheduleCall \/ TrapCall

SpecSched == SchedInit /\ [][NextSched]_vars

\* S5 before the tick on hart c: a thread added through ready_list_add_task
\* runs on c and another thread is first on the ready list.
S5Before(c) ==
    /\ running[c] \in Threads
    /\ running[c] \in Range(added)
    /\ ReadySeq # << >>
    /\ ReadySeq[1] \in Threads
    /\ ReadySeq[1] # running[c]

\* C18: after one timer interrupt (scause interrupt code 5) is handled on a
\* hart where thread A runs and thread B is first on the ready list, B is the
\* running task, sscratch holds the trap frame of B, and A is linked on the
\* ready list again.
C18_TimerPreempts ==
    [][(/\ slast'.op = "trap"
        /\ scalls' = scalls + 1
        /\ slast'.cause = TimerCause
        /\ S5Before(slast'.cpu))
       => (/\ running'[slast'.cpu] = ReadySeq[1]
           /\ sscratch'[slast'.cpu] = get_trap_frame_ptr(ReadySeq[1])
           /\ running[slast'.cpu] \in Range(ReadySeq'))]_vars

IsPrefix(s, t) == Len(s) <= Len(t) /\ \A i \in 1 .. Len(s) : s[i] = t[i]

\* C19: the ready list is first in, first out.  The tasks schedule() took
\* off the list are, in order, the first of the tasks ready_list_add_task
\* linked, and the list holds the rest in the order of their addition; the
\* task schedule() dispatched is marked Running and no longer linked; when
\* the list was empty it is the idle task of the calling hart.
C19_Fifo ==
    /\ IsPrefix(dispatched, added)
    /\ added = dispatched \o ReadySeq
    /\ slast.op = "schedule" =>
         /\ task_status[slast.task] = "Running"
         /\ slast.task \notin Range(ReadySeq)
         /\ slast.empty => slast.task = cpu_idle(slast.cpu)
         /\ ~slast.empty => slast.task = dispatched[Len(dispatched)]

\* Two different tasks were added and dispatched in the order of addition,
\* and the next schedule() found the list empty and took the idle task.
C19_Witness ==
    /\ slast.op = "schedule"
    /\ slast.empty
    /\ Len(dispatched) = 2
    /\ dispatched[1] # dispatched[2]
    /\ dispatched = added

\* C20: ready_list_add_task(task) sets the status of task to Ready and links
\* it at the tail of the ready list unless it is an idle task; no idle task of
\* any hart is ever linked on the ready list, whichever hart made the calls.
C20_IdleExcluded ==
    /\ \A c \in CPUs : cpu_idle(c) \notin Range(ReadySeq)
    /\ slast.op = "ready_list_add_task" =>
         /\ task_status[slast.task] = "Ready"
         /\ slast.task \notin IdleTasks =>
              (ReadySeq # << >> /\ ReadySeq[Len(ReadySeq)] = slast.task)

(***************************************************************************)
(* handle_trap over every cause: the traps a hart takes while the first    *)
(* thread runs on it.                                                      *)
(***************************************************************************)
\* Codes above the last one handle_trap names.
MaxTrapCode == 16

\* scause of the runs: interrupt bit clear or set, every code up to
\* MaxTrapCode.
AllCauses == {WNat(n) : n \in 0 .. MaxTrapCode}
                 \cup {{63} \cup WNat(n) : n \in 0 .. MaxTrapCode}

\* After sched::init, ready_list_add_task(1) and schedule() on hart 0: thread
\* 1 runs on hart 0, the ready list is empty.
TrapInit ==
    /\ ZoneInit(MEM_START + ALIGNMENT \div 2, 2 * ALIGNMENT)
    /\ KmemStatics
    /\ SlabUnused
    /\ MmuUnused
    /\ PreemptUnused
    /\ \E r \in {find_ready_task_or_idle(
                     ready_list_add_task(
                         [h |-> Heap([n \in {ready_head} |-> ready_head],
                                     [n \in {ready_head} |-> ready_head]),
                          status |-> [t \in Threads |-> "Ready"]], 0, 1), 0)} :
         /\ ready_list = r.s.h
         /\ task_status = Upd(r.s.status, r.task, "Running")
         /\ cpu_stack = Upd(<< >>, r.task, current_cpu_frame(0))
         /\ running = [c \in CPUs |-> IF c = 0 THEN r.task ELSE NULL]
         /\ sscratch = [c \in CPUs |-> IF c = 0 THEN get_trap_frame_ptr(r.task)
                                       ELSE NULL]
         /\ added = <<r.task>>
         /\ dispatched = <<r.task>>
         /\ slast = [op |-> "schedule", cpu |-> 0, task |-> r.task, empty |-> FALSE]
    /\ scalls = 0

TrapAny == \E c \in CPUs, cause \in AllCauses, sstatus \in TrapStatus :
               TrapVector(c, cause, sstatus)

NextTrap == TrapAny

SpecTrap == TrapInit /\ [][NextTrap]_vars

\* The last call was a trap: whether it was an interrupt, and its code.
TrapTaken == slast.op = "trap"

LastAsync == 63 \in slast.cause

LastCode == exp_code(slast.cause)

\* sstatus.SPP as the hart saved it at the trap.
LastSpp == 8 \in slast.sstatus

UserFault ==
    /\ TrapTaken
    /\ ~LastAsync
    /\ LastCode \in {0, 1, 2, 4, 5, 6, 7}
    /\ ~LastSpp

\* C23: after an exception 0-2 or 4-7 taken from user mode the faulting task
\* is not resumed at the faulting pc: another task, or the idle task, runs on
\* the hart.
C23_UserFaultReschedules ==
    UserFault =>
      /\ running[slast.cpu] # slast.task
      /\ ~(status = "run" /\ slast.pc = TrapEpc
             /\ sscratch[slast.cpu] = get_trap_frame_ptr(slast.task))

(***************************************************************************)
(* The preempt counter (sched/preempt.rs) of the task that runs on a hart. *)
(***************************************************************************)
PREEMPT_BITS == 8

SOFTIRQ_BITS == 8

HARDIRQ_BITS == 4

NMI_BITS == 4

PREEMPT_SHIFT == 0

SOFTIRQ_SHIFT == PREEMPT_SHIFT + PREEMPT_BITS

HARDIRQ_SHIFT == SOFTIRQ_SHIFT + SOFTIRQ_BITS

NMI_SHIFT == HARDIRQ_SHIFT + HARDIRQ_BITS

\* __irq_mask(bits): (1 << bits) - 1
irq_mask(bits) == Pow2(bits) - 1

\* pc & (__irq_mask(bits) << shift), for a count pc below 2^31
masked(pcount, bits, shift) ==
    ((pcount \div Pow2(shift)) % Pow2(bits)) * Pow2(shift)

PREEMPT_MASK == irq_mask(PREEMPT_BITS) * Pow2(PREEMPT_SHIFT)

SOFTIRQ_OFFSET == Pow2(SOFTIRQ_SHIFT)

\* The u64 preempt_count that overlays the two 32-bit words of the union:
\* count is the low word and need_resched the high word.
preempt_union(w) == [lo |-> w.count, hi |-> w.need_resched]

\* preempt_count(): the 32-bit count of the current task
preempt_count(w) == w.count

\* A preempt_count_add that adds twice.
preempt_count_add_twice(w, v) == [w EXCEPT !.count = w.count + 2 * v]

\* preempt_count_add(v): pc += v on the count, with no test of the depth
\* field; the u32 wraps (or, with overflow checks, panics) only at 2^32.
preempt_count_add(w, v) == [w EXCEPT !.count = w.count + v]

\* preempt_count_sub(v), for a count of at least v
preempt_count_sub(w, v) == [w EXCEPT !.count = w.count - v]

\* preempt_set_need_resched(): the word is inverted, 0 asks for a reschedule
preempt_set_need_resched(w) == [w EXCEPT !.need_resched = 0]

preempt_clear_need_resched(w) == [w EXCEPT !.need_resched = 1]

preempt_test_need_resched(w) == w.need_resched = 0

\* preempt_count_dec_and_test(), for a count of at least 1: the 64-bit word is
\* read and decremented, its low half written to count, and the result is
\* whether the decremented word, or the word read again, is zero.
preempt_count_dec_and_test(w) ==
    LET u == preempt_union(w)
        dec == [lo |-> u.lo - 1, hi |-> u.hi]
        nw == [w EXCEPT !.count = dec.lo]
        again == preempt_union(nw)
    IN  [w |-> nw,
         test |-> (dec.lo = 0 /\ dec.hi = 0) \/ (again.lo = 0 /\ again.hi = 0)]

preempt_disable(w) == preempt_count_add(w, 1)

preempt_enable_no_resched(w) == preempt_count_sub(w, 1)

\* preempt_enable(): sched tells whether preempt_schedule() was called
\* (sched/mod.rs lines 161-163: it does nothing).
preempt_enable(w) ==
    LET r == preempt_count_dec_and_test(w)
    IN  [w |-> r.w, sched |-> r.test]

nmi_count(w) == masked(preempt_count(w), NMI_BITS, NMI_SHIFT)

hardirq_count(w) == masked(preempt_count(w), HARDIRQ_BITS, HARDIRQ_SHIFT)

softirq_count(w) == masked(preempt_count(w), SOFTIRQ_BITS, SOFTIRQ_SHIFT)

in_nmi(w) == nmi_count(w) # 0

in_hardirq(w) == hardirq_count(w) # 0

\* (softirq_count() & SOFTIRQ_OFFSET) != 0
in_serving_softirq(w) == (softirq_count(w) \div SOFTIRQ_OFFSET) % 2 = 1

\* The deepest nesting of the runs.
MaxDepth == 257

\* What the preempt calls leave alone.
PreemptFix == <<hart_sstatus, lockw, guards, lop, bvars, kvars, svars, mvars,
                schvars, lvars>>

\* The state a preempt call on hart c was made in.
PBefore(c) == [count |-> preempt[c].count, pending |-> pending[c],
               depth |-> pdepth[c]]

PreemptDisable(c) ==
    /\ running[c] # NULL
    /\ pdepth[c] < MaxDepth
    /\ preempt' = [preempt EXCEPT ![c] = preempt_disable(preempt[c])]
    /\ pdepth' = [pdepth EXCEPT ![c] = pdepth[c] + 1]
    /\ plast' = [op |-> "preempt_disable", cpu |-> c, sched |-> FALSE,
                 before |-> PBefore(c)]
    /\ UNCHANGED <<pending, PreemptFix>>

\* preempt_enable() matching an earlier preempt_disable()
PreemptEnable(c) ==
    /\ running[c] # NULL
    /\ pdepth[c] > 0
    /\ \E r \in {preempt_enable(preempt[c])} :
         /\ preempt' = [preempt EXCEPT ![c] = r.w]
         /\ plast' = [op |-> "preempt_enable", cpu |-> c, sched |-> r.sched,
                      before |-> PBefore(c)]
    /\ pdepth' = [pdepth EXCEPT ![c] = pdepth[c] - 1]
    /\ UNCHANGED <<pending, PreemptFix>>

\* preempt_enable_no_resched() matching an earlier preempt_disable()
PreemptEnableNoResched(c) ==
    /\ running[c] # NULL
    /\ pdepth[c] > 0
    /\ preempt' = [preempt EXCEPT ![c] = preempt_enable_no_resched(preempt[c])]
    /\ pdepth' = [pdepth EXCEPT ![c] = pdepth[c] - 1]
    /\ plast' = [op |-> "preempt_enable_no_resched", cpu |-> c, sched |-> FALSE,
                 before |-> PBefore(c)]
    /\ UNCHANGED <<pending, PreemptFix>>

PreemptSetNeedResched(c) ==
    /\ running[c] # NULL
    /\ preempt' = [preempt EXCEPT ![c] = preempt_set_need_resched(preempt[c])]
    /\ pending' = [pending EXCEPT ![c] = TRUE]
    /\ plast' = [op |-> "preempt_set_need_resched", cpu |-> c, sched |-> FALSE,
                 before |-> PBefore(c)]
    /\ UNCHANGED <<pdepth, PreemptFix>>

PreemptClearNeedResched(c) ==
    /\ running[c] # NULL
    /\ preempt' = [preempt EXCEPT ![c] = preempt_clear_need_resched(preempt[c])]
    /\ pending' = [pending EXCEPT ![c] = FALSE]
    /\ plast' = [op |-> "preempt_clear_need_resched", cpu |-> c, sched |-> FALSE,
                 before |-> PBefore(c)]
    /\ UNCHANGED <<pdepth, PreemptFix>>

\* A new kernel thread runs on hart 0; its TaskInfo is as kzalloc left it.
PreemptInit == TrapInit

NextPreempt ==
    \/ \E c \in CPUs : PreemptDisable(c)
    \/ \E c \in CPUs : PreemptEnable(c)
    \/ \E c \in CPUs : PreemptEnableNoResched(c)
    \/ \E c \in CPUs : PreemptSetNeedResched(c)
    \/ \E c \in CPUs : PreemptClearNeedResched(c)

SpecPreempt == PreemptInit /\ [][NextPreempt]_vars

\* C24: while the nesting of preempt_disable calls, each matched by a
\* preempt_enable or preempt_enable_no_resched, stays within 0..255 from a
\* count of 0, preempt_count() equals the nesting depth after every call (0
\* when every call is matched) and the softirq, hardirq and NMI fields stay 0.
C24_CountIsDepth ==
    \A c \in CPUs :
        pdepth[c] <= irq_mask(PREEMPT_BITS) =>
            /\ preempt_count(preempt[c]) = pdepth[c]
            /\ softirq_count(preempt[c]) = 0
            /\ hardirq_count(preempt[c]) = 0
            /\ nmi_count(preempt[c]) = 0

\* The 255th nested preempt_disable: the depth field is full.
C24_Witness ==
    /\ plast.op = "preempt_disable"
    /\ pdepth[plast.cpu] = irq_mask(PREEMPT_BITS)
    /\ preempt_count(preempt[plast.cpu]) = irq_mask(PREEMPT_BITS)

\* C25: preempt_enable calls the scheduler exactly when its decrement brings
\* the counter to zero and a reschedule is pending, that is
\* preempt_set_need_resched was called and preempt_clear_need_resched was not
\* called since.
C25_EnableReschedules ==
    plast.op = "preempt_enable" =>
        (plast.sched <=> (preempt[plast.cpu].count = 0 /\ plast.before.pending))

\* C25 for a task whose need_resched word was written at least once: the
\* scheduler is called exactly when the counter reaches zero and the last
\* write was preempt_set_need_resched.
C25_EnableFollowsFlag ==
    plast.op = "preempt_enable" =>
        (plast.sched <=> (preempt[plast.cpu].count = 0
                            /\ preempt_test_need_resched(preempt[plast.cpu])))

\* C26: a preempt_disable issued while the depth field holds 255 panics, the
\* depth never carries into the softirq field, and in_serving_softirq(),
\* in_hardirq() and in_nmi() stay as they were (false) under preempt_disable
\* and preempt_enable calls.
C26_DepthOverflowPanics ==
    /\ (plast.op = "preempt_disable"
          /\ masked(plast.before.count, PREEMPT_BITS, PREEMPT_SHIFT) = PREEMPT_MASK)
         => status = "panic"
    /\ \A c \in CPUs :
         /\ softirq_count(preempt[c]) = 0
         /\ ~in_serving_softirq(preempt[c])
         /\ ~in_hardirq(preempt[c])
         /\ ~in_nmi(preempt[c])

(***************************************************************************)
(* SpinLockPure and the raw_spin_* wrappers (base/sync/spin_lock.rs) over  *)
(* the interrupt flag (base/irq.rs) and the preempt counter.               *)
(***************************************************************************)
\* A compare-and-swap that stores whatever the word holds.
compare_exchange_blind(cur, expected, new) == {[ok |-> TRUE, val |-> new]}

\* AtomicBool::compare_exchange_weak(expected, new): the outcomes; it may
\* fail though the word holds the expected value.
compare_exchange_weak(cur, expected, new) ==
    IF cur = expected
    THEN {[ok |-> TRUE, val |-> new], [ok |-> FALSE, val |-> cur]}
    ELSE {[ok |-> FALSE, val |-> cur]}

\* SpinLockPure::try_lock
try_lock(w) == compare_exchange_weak(w, FALSE, TRUE)

\* SpinLockPure::lock: the outcomes that end the loop
lock(w) == {r \in try_lock(w) : r.ok}

\* An unlock that leaves the word as it is.
unlock_keeps(w) == w

\* SpinLockPure::unlock: store(false)
unlock(w) == FALSE

\* csrrci sstatus, 0b0010: SIE cleared, the old value returned
sstatus_cli(s) == [old |-> s, new |-> s \ {SIE}]

\* csrrsi sstatus, 0b0010
sstatus_sti(s) == s \cup {SIE}

\* csrw sstatus, val
sstatus_write(s, val) == val

is_irq_disabled(s) == SIE \notin s

local_irq_enable(s) == sstatus_sti(s)

\* A local_irq_disable that leaves sstatus as it is.
local_irq_disable_none(s) == s

local_irq_disable(s) == sstatus_cli(s).new

\* local_irq_save(): sstatus_cli_save, the flags are the old sstatus
local_irq_save(s) == [flags |-> sstatus_cli(s).old, new |-> sstatus_cli(s).new]

\* A restore that switches interrupts on whatever the flags say.
local_irq_restore_on(s, flgs) == s \cup {SIE}

\* local_irq_restore(flags)
local_irq_restore(s, flgs) == sstatus_write(s, flgs)

\* The ways a lock is taken: lock_guard / raw_spin_lock, lock_guard_irq /
\* raw_spin_lock_irq, lock_guard_irq_save / raw_spin_lock_irq_save, and
\* raw_spin_try_lock.
LockKinds == {"plain", "irq", "irq_save", "try"}

IrqKinds == {"irq", "irq_save"}

\* The part of raw_spin_lock, raw_spin_lock_irq and raw_spin_lock_irq_save
\* before lock.lock(), on a hart with sstatus s and preempt word w.
lock_entry(kind, s, w) ==
    [s |-> IF kind = "irq" THEN local_irq_disable(s)
           ELSE IF kind = "irq_save" THEN local_irq_save(s).new
           ELSE s,
     flags |-> IF kind = "irq_save" THEN local_irq_save(s).flags ELSE {},
     w |-> preempt_disable(w)]

\* The part of raw_spin_unlock, raw_spin_unlock_irq and
\* raw_spin_unlock_irq_restore after lock.unlock().
unlock_exit(kind, flgs, s, w) ==
    [s |-> IF kind = "irq" THEN local_irq_enable(s)
           ELSE IF kind = "irq_save" THEN local_irq_restore(s, flgs)
           ELSE s,
     w |-> preempt_enable(w).w,
     sched |-> preempt_enable(w).sched]

\* The harts that hold lock l.
Holders(l) == {c \in CPUs : \E i \in DOMAIN guards[c] : guards[c][i].lock = l}

\* What the lock calls leave alone.
LockFix == <<pending, bvars, kvars, svars, mvars, schvars, lvars>>

\* Every guard hart c holds saw interrupts switched on.
Reopened(gs) == [i \in DOMAIN gs |-> [gs[i] EXCEPT !.reopened = TRUE]]

\* raw_spin_lock(l), raw_spin_lock_irq(l) or raw_spin_lock_irq_save(l) on hart
\* c, from the call to the compare-and-swap that takes the lock; the guard
\* remembers the flags saved and, for the claims, the depth and SIE from
\* before the call.
RawSpinLock(c, l, kind) ==
    /\ running[c] # NULL
    /\ lop[c].op = "none"
    /\ \E r \in lock(lockw[l]), e \in {lock_entry(kind, hart_sstatus[c], preempt[c])} :
         /\ lockw' = [lockw EXCEPT ![l] = r.val]
         /\ hart_sstatus' = [hart_sstatus EXCEPT ![c] = e.s]
         /\ preempt' = [preempt EXCEPT ![c] = e.w]
         /\ guards' = [guards EXCEPT ![c] = Append(guards[c],
                          [lock |-> l, kind |-> kind, flags |-> e.flags,
                           d0 |-> preempt_count(preempt[c]),
                           sie0 |-> ~is_irq_disabled(hart_sstatus[c]),
                           reopened |-> FALSE])]
    /\ pdepth' = [pdepth EXCEPT ![c] = pdepth[c] + 1]
    /\ plast' = [op |-> "lock", cpu |-> c, lock |-> l, kind |-> kind, ok |-> TRUE]
    /\ UNCHANGED <<lop, LockFix>>

\* raw_spin_try_lock(l) on hart c
RawSpinTryLock(c, l) ==
    /\ running[c] # NULL
    /\ lop[c].op = "none"
    /\ \E r \in try_lock(lockw[l]), e \in {lock_entry("try", hart_sstatus[c], preempt[c])} :
         /\ lockw' = [lockw EXCEPT ![l] = r.val]
         /\ preempt' = [preempt EXCEPT ![c] =
                           IF r.ok THEN e.w ELSE preempt_enable(e.w).w]
         /\ guards' = [guards EXCEPT ![c] =
                          IF r.ok
                          THEN Append(guards[c],
                                 [lock |-> l, kind |-> "try", flags |-> {},
                                  d0 |-> preempt_count(preempt[c]),
                                  sie0 |-> ~is_irq_disabled(hart_sstatus[c]),
                                  reopened |-> FALSE])
                          ELSE guards[c]]
         /\ pdepth' = [pdepth EXCEPT ![c] = IF r.ok THEN pdepth[c] + 1 ELSE pdepth[c]]
         /\ plast' = [op |-> "try_lock", cpu |-> c, lock |-> l, kind |-> "try",
                      ok |-> r.ok]
    /\ UNCHANGED <<hart_sstatus, lop, LockFix>>

\* The first statement of raw_spin_unlock, raw_spin_unlock_irq or
\* raw_spin_unlock_irq_restore for the innermost lock of hart c:
\* lock.unlock().
UnlockRelease(c) ==
    /\ lop[c].op = "none"
    /\ guards[c] # << >>
    /\ \E g \in {guards[c][Len(guards[c])]} :
         /\ lockw' = [lockw EXCEPT ![g.lock] = unlock(lockw[g.lock])]
         /\ lop' = [lop EXCEPT ![c] = [op |-> "unlock", g |-> g]]
         /\ plast' = [op |-> "release", cpu |-> c, g |-> g]
    /\ guards' = [guards EXCEPT ![c] = SubSeq(guards[c], 1, Len(guards[c]) - 1)]
    /\ UNCHANGED <<preempt, hart_sstatus, pdepth, LockFix>>

\* The rest of the unlock: the interrupt flag, then preempt_enable().
UnlockLeave(c) ==
    /\ lop[c].op = "unlock"
    /\ \E g \in {lop[c].g} :
       \E x \in {unlock_exit(g.kind, g.flags, hart_sstatus[c], preempt[c])} :
         /\ hart_sstatus' = [hart_sstatus EXCEPT ![c] = x.s]
         /\ preempt' = [preempt EXCEPT ![c] = x.w]
         /\ guards' = [guards EXCEPT ![c] =
                          IF is_irq_disabled(x.s) THEN guards[c]
                          ELSE Reopened(guards[c])]
         /\ plast' = [op |-> "drop", cpu |-> c, g |-> g, sched |-> x.sched]
    /\ pdepth' = [pdepth EXCEPT ![c] = pdepth[c] - 1]
    /\ lop' = [lop EXCEPT ![c] = [op |-> "none"]]
    /\ UNCHANGED <<lockw, LockFix>>

\* After sched::init and a schedule() on every hart with the ready list
\* empty: each hart runs its idle task, with interrupts on or off; no lock is
\* held.
LockInit ==
    /\ ZoneInit(MEM_START + ALIGNMENT \div 2, 2 * ALIGNMENT)
    /\ KmemStatics
    /\ SlabUnused
    /\ MmuUnused
    /\ ready_list = Heap([n \in {ready_head} |-> ready_head],
                         [n \in {ready_head} |-> ready_head])
    /\ task_status = [t \in AllTasks |-> IF t \in Threads THEN "Ready" ELSE "Running"]
    /\ cpu_stack = [t \in IdleTasks |->
                      current_cpu_frame(CHOOSE c \in CPUs : cpu_idle(c) = t)]
    /\ running = [c \in CPUs |-> cpu_idle(c)]
    /\ sscratch = [c \in CPUs |-> get_trap_frame_ptr(cpu_idle(c))]
    /\ added = << >>
    /\ dispatched = << >>
    /\ slast = [op |-> "schedule", cpu |-> NumCpus - 1,
                task |-> cpu_idle(NumCpus - 1), empty |-> TRUE]
    /\ scalls = 0
    /\ preempt = [c \in CPUs |-> [count |-> 0, need_resched |-> 0]]
    /\ hart_sstatus \in [CPUs -> {{}, {SIE}}]
    /\ lockw = [l \in Locks |-> FALSE]
    /\ guards = [c \in CPUs |-> << >>]
    /\ lop = [c \in CPUs |-> [op |-> "none"]]
    /\ pdepth = [c \in CPUs |-> 0]
    /\ pending = [c \in CPUs |-> FALSE]
    /\ plast = [op |-> "none"]

NextLock ==
    \/ \E c \in CPUs, l \in Locks, kind \in LockKinds \ {"try"} : RawSpinLock(c, l, kind)
    \/ \E c \in CPUs, l \in Locks : RawSpinTryLock(c, l)
    \/ \E c \in CPUs : UnlockRelease(c)
    \/ \E c \in CPUs : UnlockLeave(c)

SpecLock == LockInit /\ [][NextLock]_vars

\* C27: with the harts calling lock(), try_lock() and unlock() on a
\* SpinLockPure, each unlock by the holder, at most one hart is between a
\* successful lock() or try_lock() and its unlock(), and the lock word is set
\* while a hart is.
C27_MutualExclusion ==
    \A l \in Locks :
        /\ Cardinality(Holders(l)) <= 1
        /\ \A c \in Holders(l) :
             /\ Cardinality({i \in DOMAIN guards[c] : guards[c][i].lock = l}) = 1
             /\ lockw[l]

\* A hart holds a lock that another hart has just tried and failed to take.
C27_Witness ==
    /\ plast.op = "try_lock"
    /\ ~plast.ok
    /\ Holders(plast.lock) # {}
    /\ plast.cpu \notin Holders(plast.lock)

C29_GuardDrop ==
    /\ plast.op = "release" => ~lockw[plast.g.lock]
    /\ plast.op = "drop" =>
         /\ preempt_count(preempt[plast.cpu]) = plast.g.d0
         /\ plast.g.kind = "irq_save" =>
              (~is_irq_disabled(hart_sstatus[plast.cpu]) <=> plast.g.sie0)

\* A save-IRQ guard made with interrupts off was dropped after a guard made
\* inside it had switched interrupts on.
C29_Witness ==
    /\ plast.op = "drop"
    /\ plast.g.kind = "irq_save"
    /\ plast.g.reopened
    /\ ~plast.g.sie0
    /\ is_irq_disabled(hart_sstatus[plast.cpu])

(***************************************************************************)
(* page::init over heap bases and region sizes: where the bitmaps, the     *)
(* Page array and the allocatable region lie.                              *)
(***************************************************************************)
\* The heap bases of the runs are MaxHeapSteps steps of 4100 bytes above
\* MEM_START + 1 MiB; the regions hold up to MaxRegionBlocks top-order blocks.
MaxHeapSteps == 11

MaxRegionBlocks == 9

LayoutHeapBases == {MEM_START + 1048576 + k * 4100 : k \in 0 .. MaxHeapSteps}

LayoutMemSizes == {b * ALIGNMENT : b \in 2 .. MaxRegionBlocks}

\* Before page::init: MEMORY_ZONES and the allocator statics are zero.
LayoutInit ==
    /\ nxt = << >>
    /\ prv = << >>
    /\ bitmap = << >>
    /\ flags = << >>
    /\ free_pages = 0
    /\ max_pages = 0
    /\ ALLOC_START = 0
    /\ zone_mem_size = 0
    /\ dt_regions = << >>
    /\ mem_regions = << >>
    /\ status = "run"
    /\ live = {}
    /\ freed = {}
    /\ calls = 0
    /\ last = [op |-> "none", order |-> 0, addr |-> 0, unlinked |-> << >>]
    /\ KmemStatics
    /\ SlabUnused
    /\ SchedUnused
    /\ PreemptUnused
    /\ HEAP_BASE \in LayoutHeapBases
    /\ ALLOC_FN = "early"
    /\ DEALLOC_FN = "early"
    /\ table_mode = "Bare"
    /\ root = {}
    /\ pt = << >>
    /\ tables = {}
    /\ released = {}
    /\ mlast = [op |-> "none"]
    /\ mcalls = 0

\* page::init(&[(MEM_START, ms)]): the assert of line 301, then the zone as
\* ZoneInit describes it.
PageInit(ms) ==
    /\ status = "run"
    /\ zone_mem_size = 0
    /\ \E L \in {InitLayout(HEAP_BASE, MEM_START, ms)} :
         IF L.asserted
         THEN /\ nxt' = InitNext(L.max_alloc_large_pages)
              /\ prv' = InitPrev(L.max_alloc_large_pages)
              /\ bitmap' = [k \in 0 .. (MAX_FREE_AREA_ORDER - 2) |-> {}]
              /\ free_pages' = L.alloc_pages
              /\ max_pages' = L.alloc_pages
              /\ ALLOC_START' = L.alloc_start
              /\ status' = "run"
              /\ last' = [op |-> "init", order |-> 0, addr |-> 0,
                          unlinked |-> << >>]
         ELSE /\ status' = "panic"
              /\ UNCHANGED <<nxt, prv, bitmap, free_pages, max_pages, ALLOC_START,
                             last>>
    /\ zone_mem_size' = ms
    /\ dt_regions' = << <<MEM_START, <<ms>> >> >>
    /\ mem_regions' = << <<MEM_START, ms>> >>
    /\ UNCHANGED <<flags, live, freed, calls, kvars, svars, mvars, schvars, pvars>>

NextLayout == \E ms \in LayoutMemSizes : PageInit(ms)

SpecLayout == LayoutInit /\ [][NextLayout]_vars

\* page::init leaves the zone the other runs start from.
PageInitIsZoneInit ==
    (zone_mem_size # 0 /\ status = "run") => ZoneInit(HEAP_BASE, zone_mem_size)

\* The layout page::init computed for the zone.
ZoneLayout == InitLayout(HEAP_BASE, MEM_START, zone_mem_size)

\* The bits the bitmap of order i needs for a zone of `pages` pages:
\* ceil(pages / 2^(i+1))
NeedBits(pages, i) == (pages + Pow2(i + 1) - 1) \div Pow2(i + 1)

\* The bytes [from, to) the bitmap of order i needs, from the pointer
\* page::init gives FreeArea i.
BitmapRange(L, i) ==
    [from |-> L.bitmap_start + BitmapOffset(L.max_alloc_pages, i),
     to |-> L.bitmap_start + BitmapOffset(L.max_alloc_pages, i)
              + (NeedBits(L.alloc_pages, i) + 7) \div 8]

\* The bytes write_bytes zeroes: whole u64 words from bitmap_start.
ZeroedEnd(L) == L.bitmap_start + 8 * ((L.page_start - L.bitmap_start) \div 8)

\* C30: after page::init, for every order i below the top the bitmap of order
\* i has ceil(pages / 2^(i+1)) bits inside the reserved, zeroed bitmap area,
\* no two bitmaps share a byte, and the bitmaps, the Page array and the
\* allocatable region are pairwise disjoint.
C30_LayoutDisjoint ==
    zone_mem_size # 0 =>
      LET L == ZoneLayout
      IN  /\ \A i \in 0 .. (MAX_FREE_AREA_ORDER - 2) :
               /\ BitmapRange(L, i).to <= ZeroedEnd(L)
               /\ BitmapRange(L, i).to <= L.page_start
               /\ i > 0 => BitmapRange(L, i - 1).to <= BitmapRange(L, i).from
          /\ L.page_start + SIZE_OF_PAGE * L.alloc_pages <= L.alloc_start
          /\ L.alloc_start + L.alloc_pages * PAGE_SIZE <= L.mem_end

\* The parts of C30 that hold: no two bitmaps share a byte, and the Page array
\* ends before the allocatable region, which ends inside the memory region.
C30_PagesBelowRegion ==
    zone_mem_size # 0 =>
      LET L == ZoneLayout
      IN  /\ \A i \in 1 .. (MAX_FREE_AREA_ORDER - 2) :
               BitmapRange(L, i - 1).to <= BitmapRange(L, i).from
          /\ L.page_start + SIZE_OF_PAGE * L.alloc_pages <= L.alloc_start
          /\ L.alloc_start + L.alloc_pages * PAGE_SIZE <= L.mem_end

(***************************************************************************)
(* init::collect_memory_region_and_init: the regions of the device tree's  *)
(* memory node, sorted and merged on the stack, handed to mm::early_init.  *)
(***************************************************************************)
\* A device tree names up to MaxRegions regions; they start up to
\* MaxRegionStart half top-order blocks above MEM_START and are up to
\* MaxRegionSize half blocks long.
MaxRegions == 3

MaxRegionStart == 3

MaxRegionSize == 3

RegionUnit == ALIGNMENT \div 2

DtRegion ==
    {<<MEM_START + k * RegionUnit, sz>> :
        k \in 0 .. MaxRegionStart,
        sz \in {<< >>} \cup {<<j * RegionUnit>> : j \in 0 .. MaxRegionSize}}

DtRegionLists == UNION {[1 .. n -> DtRegion] : n \in 1 .. MaxRegions}

\* size_of::<(usize, usize)>()
SIZE_OF_PAIR == 16

\* The stack buffer before anything is written to it: reg_count + 1 pairs
\* are left of the reg_count + 2 asked for, whatever align_up_of skips.
\* No slot is read before it is written; the marker makes a read of one an
\* evaluation error.
StackPairs(reg_count) == [i \in 0 .. reg_count |-> <<"uninit", "uninit">>]

insert_pair_append(pair, ins_pos, addr, size) ==
    [pair EXCEPT ![ins_pos] = <<addr, size>>]

RECURSIVE insert_pair(_, _, _, _)
\* The while loop of lines 141-150: the pairs above the place of addr move
\* up by one, then the pair is written.
insert_pair(pair, ins_pos, addr, size) ==
    IF ins_pos > 0 /\ ~(addr >= pair[ins_pos - 1][1])
    THEN insert_pair([pair EXCEPT ![ins_pos] = pair[ins_pos - 1]], ins_pos - 1,
                     addr, size)
    ELSE [pair EXCEPT ![ins_pos] = <<addr, size>>]

RECURSIVE collect_sorted(_, _, _, _)
\* The for loop of lines 134-154 over the regions from the k-th on: a region
\* without size or of size 0 is skipped.
collect_sorted(regions, k, pair, idx) ==
    IF k > Len(regions) THEN [pair |-> pair, idx |-> idx]
    ELSE IF regions[k][2] = << >> \/ regions[k][2][1] = 0
         THEN collect_sorted(regions, k + 1, pair, idx)
         ELSE collect_sorted(regions, k + 1,
                             insert_pair(pair, idx, regions[k][1], regions[k][2][1]),
                             idx + 1)

RECURSIVE merge_pairs(_, _, _, _, _, _)
\* The while loop of lines 165-185: the run [seq_ptr, seq_ptr + seq_size)
\* grows over the pairs that touch or overlap it and is written back when a
\* gap follows.
merge_pairs(pair, idx, total, seq_idx, seq_ptr, seq_size) ==
    IF idx < total
    THEN LET ptr == pair[idx][1]
             size == pair[idx][2]
         IN  IF seq_ptr + seq_size = ptr
             THEN merge_pairs(pair, idx + 1, total, seq_idx, seq_ptr, seq_size + size)
             ELSE IF seq_ptr + seq_size > ptr
             THEN merge_pairs(pair, idx + 1, total, seq_idx, seq_ptr,
                              IF seq_ptr + seq_size < ptr + size
                              THEN ptr + size - seq_ptr ELSE seq_size)
             ELSE merge_pairs([pair EXCEPT ![seq_idx] = <<seq_ptr, seq_size>>],
                              idx + 1, total, seq_idx + 1, ptr, size)
    ELSE [pair |-> [pair EXCEPT ![seq_idx] = <<seq_ptr, seq_size>>],
          idx |-> seq_idx + 1]

\* slice::from_raw_parts(pair, n)
slice_from_raw_parts(pair, n) == [i \in 1 .. n |-> pair[i - 1]]

\* Lines 127-190: the slice handed to mm::early_init, and whether the
\* assert! of line 155 let the call get there.
collect_memory_region(regions, count) ==
    LET c == collect_sorted(regions, 1, StackPairs(Len(regions)), 0)
        m == IF c.idx <= 1 THEN c
             ELSE merge_pairs(c.pair, 1, c.idx, 0, c.pair[0][1], c.pair[0][2])
    IN  [asserted |-> (c.idx + 1) * SIZE_OF_PAIR <= count,
         regions |-> slice_from_raw_parts(m.pair, m.idx)]

\* What the panic! of an assert leaves: nothing of the allocators is set up.
EarlyPanic ==
    /\ status' = "panic"
    /\ UNCHANGED <<nxt, prv, bitmap, flags, free_pages, max_pages, ALLOC_START,
                   zone_mem_size, last, kvars>>

\* mm::early_init(regions), mm/mod.rs lines 42-49: page::init on the first
\* region, then kmem::init.
early_init(regions) ==
    IF regions = << >> THEN EarlyPanic
    ELSE \E L \in {InitLayout(HEAP_BASE, regions[1][1], regions[1][2])} :
         IF ~L.asserted THEN EarlyPanic
         ELSE /\ max_pages' = L.alloc_pages
              /\ ALLOC_START' = L.alloc_start
              /\ zone_mem_size' = regions[1][2]
              /\ \E r \in {do_alloc_pages(FreshZone(L), get_order(ALLOC_COUNT))} :
                 \E k_alloc \in {page_to_address(r.page, L.alloc_start)} :
                   /\ last' = [op |-> "kmem_init", order |-> get_order(ALLOC_COUNT),
                               addr |-> k_alloc, unlinked |-> << >>]
                   /\ IF k_alloc = 0
                      THEN /\ \E debug_assertions \in BOOLEAN :
                                status' = IF debug_assertions THEN "panic" ELSE "fault"
                           /\ nxt' = InitNext(L.max_alloc_large_pages)
                           /\ prv' = InitPrev(L.max_alloc_large_pages)
                           /\ bitmap' = FreshZone(L).bm
                           /\ flags' = << >>
                           /\ free_pages' = L.alloc_pages
                           /\ UNCHANGED kvars
                      ELSE /\ Leave(r.z, FALSE)
                           /\ kheap' = Upd(kheap, k_alloc,
                                           [size |-> ALLOC_COUNT * PAGE_SIZE,
                                            taken |-> FALSE])
                           /\ KMEM_ALLOC' = ALLOC_COUNT
                           /\ KMEM_HEAD' = k_alloc
                           /\ klive' = klive

\* collect_memory_region_and_init(s_ptr, count, user_data) as early_setup
\* calls it (lines 62-79): count is (reg_count + 2) pairs.
CollectMemoryRegionAndInit ==
    /\ status = "run"
    /\ mem_regions = << >>
    /\ calls = 0
    /\ \E c \in {collect_memory_region(dt_regions,
                                       (Len(dt_regions) + 2) * SIZE_OF_PAIR)} :
         IF c.asserted
         THEN /\ mem_regions' = c.regions
              /\ early_init(c.regions)
         ELSE /\ mem_regions' = mem_regions
              /\ EarlyPanic
    /\ calls' = calls + 1
    /\ UNCHANGED <<dt_regions, live, freed, svars, mvars, schvars, pvars>>

\* early_setup has parsed the device tree; nothing is set up yet.
CollectInit ==
    /\ nxt = << >>
    /\ prv = << >>
    /\ bitmap = << >>
    /\ flags = << >>
    /\ free_pages = 0
    /\ max_pages = 0
    /\ ALLOC_START = 0
    /\ zone_mem_size = 0
    /\ dt_regions \in DtRegionLists
    /\ mem_regions = << >>
    /\ status = "run"
    /\ live = {}
    /\ freed = {}
    /\ calls = 0
    /\ last = [op |-> "none", order |-> 0, addr |-> 0, unlinked |-> << >>]
    /\ KmemStatics
    /\ SlabUnused
    /\ SchedUnused
    /\ PreemptUnused
    /\ HEAP_BASE = MEM_START + RegionUnit
    /\ ALLOC_FN = "early"
    /\ DEALLOC_FN = "early"
    /\ table_mode = "Bare"
    /\ root = {}
    /\ pt = << >>
    /\ tables = {}
    /\ released = {}
    /\ mlast = [op |-> "none"]
    /\ mcalls = 0

NextCollect == CollectMemoryRegionAndInit

SpecCollect == CollectInit /\ [][NextCollect]_vars

\* The bytes of a region, in half blocks above MEM_START.
UnitsOf(addr, size) ==
    {u \in 0 .. (MaxRegionStart + MaxRegionSize) :
        addr <= MEM_START + u * RegionUnit
        /\ MEM_START + u * RegionUnit < addr + size}

\* What the device tree's regions with a size cover.
DtCovered ==
    UNION {UnitsOf(dt_regions[k][1], dt_regions[k][2][1]) :
             k \in {j \in DOMAIN dt_regions : dt_regions[j][2] # << >>}}

MemCovered == UNION {UnitsOf(mem_regions[k][1], mem_regions[k][2]) :
                       k \in DOMAIN mem_regions}

\* C31: whatever the order, the adjacency and the overlaps of the device
\* tree's regions, the array handed to the memory initialisation is sorted
\* by start address, its regions are disjoint and not adjacent, none is
\* empty, and it covers exactly the addresses the device tree's regions
\* cover.
C31_RegionsNormalised ==
    mem_regions # << >> =>
        /\ \A k \in DOMAIN mem_regions : mem_regions[k][2] > 0
        /\ \A k \in 1 .. (Len(mem_regions) - 1) :
              mem_regions[k][1] + mem_regions[k][2] < mem_regions[k + 1][1]
        /\ MemCovered = DtCovered

\* Three regions out of order, two of them overlapping and the third
\* adjacent, came out as one.
C31_Witness ==
    /\ Len(dt_regions) = 3
    /\ dt_regions[1][1] > dt_regions[2][1]
    /\ dt_regions[2][1] > dt_regions[3][1]
    /\ \A k \in 1 .. 3 : dt_regions[k][2] # << >> /\ dt_regions[k][2][1] > 0
    /\ dt_regions[3][1] + dt_regions[3][2][1] > dt_regions[2][1]
    /\ dt_regions[2][1] + dt_regions[2][2][1] = dt_regions[1][1]
    /\ Len(mem_regions) = 1
    /\ KMEM_HEAD # 0

(***************************************************************************)
(* The buddy allocator's blocks: who owns which page.                      *)
(***************************************************************************)
\* The blocks on the free lists, each <<first page, order>>.
FreeBlocks ==
    UNION {{<<x, k>> : x \in {y \in Range(FreeList(k)) : IsPage(y)}} :
                  k \in Orders}

\* The pages of the free block <<x, k>>.
FreeBlockPages(f) == f[1] .. (f[1] + Pow2(f[2]) - 1)

LivePages(b) == BlockPages(b.addr, b.order, ALLOC_START)

\* C32: after any alloc_pages calls and free_pages calls that match them,
\* the live blocks are pairwise disjoint, no live block shares a page with a
\* block on a free list, and no page lies in two free-list blocks.
C32_Isolation ==
    /\ \A a, b \in live : a # b => LivePages(a) \cap LivePages(b) = {}
    /\ \A a \in live : \A f \in FreeBlocks : LivePages(a) \cap FreeBlockPages(f) = {}
    /\ \A f, g \in FreeBlocks :
          f # g => FreeBlockPages(f) \cap FreeBlockPages(g) = {}

RECURSIVE SumPages(_)
\* The pages of a set of blocks <<first page, order>>.
SumPages(blocks) ==
    IF blocks = {} THEN 0
    ELSE LET f == CHOOSE g \in blocks : TRUE
         IN  Pow2(f[2]) + SumPages(blocks \ {f})

\* C33: after page::init and after every alloc_pages and free_pages call that
\* returned, the free_pages counter is the sum over the orders k of 2^k times
\* the number of blocks on the order-k list, and it is max_pages less the
\* pages of the live blocks.
C33_Accounting ==
    status = "run" =>
        /\ free_pages = SumPages(FreeBlocks)
        /\ free_pages = max_pages - SumPages({<<b.id, b.order>> : b \in live})

\* C34: a free_pages call for a live block does not panic, whichever block it
\* is: the one at ALLOC_START (page index 0) and the highest block of the
\* zone included.
C34_ValidFreeNoPanic ==
    last.op = "free" => status # "panic"

(***************************************************************************)
(* preempt_count_dec_and_test step by step: the read of the 64-bit word,   *)
(* the write of its count half and the reload are three accesses, and an   *)
(* interrupt on the same hart may write need_resched between them.         *)
(***************************************************************************)
\* Whether a 64-bit preempt word is zero.
union_is_zero(u) == u.lo = 0 /\ u.hi = 0

dec_and_test_no_reload(dec, again) == union_is_zero(dec)

\* Line 137: pc == 0 || read_once!(preempt_count) == 0
dec_and_test_result(dec, again) == union_is_zero(dec) \/ union_is_zero(again)

\* What the steps of the call leave alone.
DecFix == <<hart_sstatus, lockw, guards, bvars, kvars, svars, mvars, schvars,
            lvars>>

\* preempt_disable() by the running task, outside any other preempt call
TaskPreemptDisable(c) ==
    /\ lop[c].op = "none"
    /\ PreemptDisable(c)

\* Line 128: pc = read_once!(preempt_union.preempt_count)
DecRead(c) ==
    /\ running[c] # NULL
    /\ lop[c].op = "none"
    /\ pdepth[c] > 0
    /\ lop' = [lop EXCEPT ![c] = [op |-> "dec_read", w |-> preempt[c],
                                  pc |-> preempt_union(preempt[c]),
                                  irqs |-> 0, marked |-> FALSE]]
    /\ UNCHANGED <<preempt, pdepth, pending, plast, DecFix>>

\* Lines 130-132: pc -= 1; write_once!(preempt.count, pc as u32).  The count
\* read is at least 1, so the decrement does not borrow from the high half.
DecWrite(c) ==
    /\ lop[c].op = "dec_read"
    /\ \E dec \in {[lop[c].pc EXCEPT !.lo = @ - 1]} :
         /\ preempt' = [preempt EXCEPT ![c].count = dec.lo]
         /\ lop' = [lop EXCEPT ![c].op = "dec_written", ![c].pc = dec]
    /\ UNCHANGED <<pdepth, pending, plast, DecFix>>

\* Line 137: the result, from pc and the word read again.
DecTest(c) ==
    /\ lop[c].op = "dec_written"
    /\ plast' = [op |-> "preempt_count_dec_and_test", cpu |-> c,
                 sched |-> dec_and_test_result(lop[c].pc, preempt_union(preempt[c])),
                 before |-> PBefore(c), w |-> lop[c].w, after |-> preempt[c],
                 irqs |-> lop[c].irqs,
                 marked |-> lop[c].marked]
    /\ lop' = [lop EXCEPT ![c] = [op |-> "none"]]
    /\ pdepth' = [pdepth EXCEPT ![c] = pdepth[c] - 1]
    /\ UNCHANGED <<preempt, pending, DecFix>>

\* What an interrupt notes in the call it interrupts: that it came, and
\* whether need-resched was marked between the read and the write and not
\* cleared since.
Interrupted(l, set) ==
    IF l.op = "none" THEN l
    ELSE [l EXCEPT !.irqs = 1,
                   !.marked = IF set THEN l.op = "dec_read" ELSE FALSE]

\* An interrupt on hart c whose handler calls preempt_set_need_resched()
IrqSetNeedResched(c) ==
    /\ running[c] # NULL
    /\ preempt' = [preempt EXCEPT ![c] = preempt_set_need_resched(preempt[c])]
    /\ pending' = [pending EXCEPT ![c] = TRUE]
    /\ lop' = [lop EXCEPT ![c] = Interrupted(lop[c], TRUE)]
    /\ UNCHANGED <<pdepth, plast, DecFix>>

\* An interrupt on hart c whose handler calls preempt_clear_need_resched()
IrqClearNeedResched(c) ==
    /\ running[c] # NULL
    /\ preempt' = [preempt EXCEPT ![c] = preempt_clear_need_resched(preempt[c])]
    /\ pending' = [pending EXCEPT ![c] = FALSE]
    /\ lop' = [lop EXCEPT ![c] = Interrupted(lop[c], FALSE)]
    /\ UNCHANGED <<pdepth, plast, DecFix>>

NextDecTest ==
    \/ \E c \in CPUs : TaskPreemptDisable(c)
    \/ \E c \in CPUs : DecRead(c)
    \/ \E c \in CPUs : DecWrite(c)
    \/ \E c \in CPUs : DecTest(c)
    \/ \E c \in CPUs : IrqSetNeedResched(c)
    \/ \E c \in CPUs : IrqClearNeedResched(c)

SpecDecTest == PreemptInit /\ [][NextDecTest]_vars

DecTestReturned == plast.op = "preempt_count_dec_and_test"

\* A call no interrupt came into returns what the call in one piece returns.
DecTestUninterrupted ==
    (DecTestReturned /\ plast.irqs = 0) =>
        /\ plast.sched = preempt_count_dec_and_test(plast.w).test
        /\ plast.after = preempt_count_dec_and_test(plast.w).w

\* C35: when an interrupt marks need-resched between the read of the word and
\* the write-back of count, and the decrement brings count to zero,
\* preempt_count_dec_and_test returns true.
C35_NoLostReschedule ==
    (DecTestReturned /\ plast.marked /\ plast.after.count = 0)
        => plast.sched

\* The word was read with need-resched clear and count 1; the mark came
\* before the write-back, and the call returned true.
C35_Witness ==
    /\ DecTestReturned
    /\ plast.marked
    /\ ~preempt_test_need_resched(plast.w)
    /\ plast.w.count = 1
    /\ plast.after.count = 0
    /\ plast.sched

(***************************************************************************)
(* The ready list under calls that overlap: ready_list_add_task and        *)
(* schedule() on different harts, one load or store of the list at a time. *)
(* No lock is taken around TASK_LIST (scheduler.rs lines 23-52), and       *)
(* disabling preemption keeps only the own hart out.  lop[c] holds the     *)
(* call in progress on hart c and what it has read.                        *)
(***************************************************************************)
\* What the steps of the scheduler calls leave alone.
RaceFix == <<preempt, hart_sstatus, lockw, guards, pdepth, pending, plast,
             bvars, kvars, svars, mvars, lvars>>

\* The calls in progress.
InCall(c) == lop[c].op # "none"

\* A field a call has loaded may be loaded again when it is used again, or
\* the first value may be kept in a register.
Reload(first, now) == {first, now}

\* ready_list_add_task(task) on hart c, lines 42-49: the status, and the test
\* for the idle task.  Each thread is added once.
AddBegin(c, t) ==
    /\ status = "run"
    /\ scalls < MaxSchedCalls
    /\ ~InCall(c)
    /\ t \notin Range(added)
    /\ \A d \in CPUs : InCall(d) => lop[d].task # t
    /\ \A d \in CPUs : running[d] # t
    /\ task_status' = Upd(task_status, t, "Ready")
    /\ lop' = [lop EXCEPT ![c] = IF is_cpu_idle(c, t) THEN [op |-> "none"]
                                 ELSE [op |-> "add_prev", task |-> t]]
    /\ scalls' = scalls + 1
    /\ slast' = [op |-> "ready_list_add_task", cpu |-> c, task |-> t]
    /\ UNCHANGED <<ready_list, cpu_stack, running, sscratch, added, dispatched,
                   status, RaceFix>>

\* list::insert_before, line 1: entry.prev = node.prev
AddSetPrev(c) ==
    /\ status = "run"
    /\ lop[c].op = "add_prev"
    /\ \E p \in {ready_list.prv[ready_head]} :
         /\ ready_list' = [ready_list EXCEPT !.prv = Upd(@, lop[c].task, p)]
         /\ lop' = [lop EXCEPT ![c] = [op |-> "add_next", task |-> lop[c].task,
                                       prev |-> p]]
    /\ UNCHANGED <<task_status, cpu_stack, running, sscratch, added, dispatched,
                   slast, scalls, status, RaceFix>>

\* list::insert_before, line 2: entry.next = node
AddSetNext(c) ==
    /\ status = "run"
    /\ lop[c].op = "add_next"
    /\ ready_list' = [ready_list EXCEPT !.nxt = Upd(@, lop[c].task, ready_head)]
    /\ lop' = [lop EXCEPT ![c].op = "add_link"]
    /\ UNCHANGED <<task_status, cpu_stack, running, sscratch, added, dispatched,
                   slast, scalls, status, RaceFix>>

\* list::insert_before, line 3: (*node.prev).next = entry
AddLinkPrev(c) ==
    /\ status = "run"
    /\ lop[c].op = "add_link"
    /\ \E p \in Reload(lop[c].prev, ready_list.prv[ready_head]) :
         ready_list' = [ready_list EXCEPT !.nxt = Upd(@, p, lop[c].task)]
    /\ lop' = [lop EXCEPT ![c].op = "add_head"]
    /\ UNCHANGED <<task_status, cpu_stack, running, sscratch, added, dispatched,
                   slast, scalls, status, RaceFix>>

\* list::insert_before, line 4: node.prev = entry; the call returns.
AddLinkHead(c) ==
    /\ status = "run"
    /\ lop[c].op = "add_head"
    /\ ready_list' = [ready_list EXCEPT !.prv = Upd(@, ready_head, lop[c].task)]
    /\ added' = Append(added, lop[c].task)
    /\ lop' = [lop EXCEPT ![c] = [op |-> "none"]]
    /\ UNCHANGED <<task_status, cpu_stack, running, sscratch, dispatched,
                   slast, scalls, status, RaceFix>>

\* schedule() on hart c: find_ready_task_or_idle tests list::is_empty
\* (scheduler.rs line 26).
SchedBegin(c) ==
    /\ status = "run"
    /\ scalls < MaxSchedCalls
    /\ ~InCall(c)
    /\ \E first \in {ready_list.nxt[ready_head]} :
         lop' = [lop EXCEPT ![c] =
                    IF first = ready_head
                    THEN [op |-> "sch_switch", task |-> cpu_idle(c), empty |-> TRUE]
                    ELSE [op |-> "sch_next", task |-> first, first |-> first]]
    /\ scalls' = scalls + 1
    /\ slast' = [op |-> "schedule", cpu |-> c, task |-> NULL, empty |-> FALSE]
    /\ UNCHANGED <<ready_list, task_status, cpu_stack, running, sscratch, added,
                   dispatched, status, RaceFix>>

\* Lines 31-32: next = ready_head.next and the task that holds it; when the
\* head itself is read, the TaskInfo is no task.
SchedNext(c) ==
    /\ lop[c].op = "sch_next"
    /\ status = "run"
    /\ \E next \in Reload(lop[c].first, ready_list.nxt[ready_head]) :
         IF next = ready_head
         THEN /\ status' = "wild"
              /\ lop' = [lop EXCEPT ![c] = [op |-> "none"]]
         ELSE /\ status' = status
              /\ lop' = [lop EXCEPT ![c] = [op |-> "sch_del_next", task |-> next,
                                            prev |-> ready_list.prv[next],
                                            next |-> ready_list.nxt[next]]]
    /\ UNCHANGED <<ready_list, task_status, cpu_stack, running, sscratch, added,
                   dispatched, slast, scalls, RaceFix>>

\* list::delete, line 1: (*entry.prev).next = entry.next
SchedDeleteNext(c) ==
    /\ status = "run"
    /\ lop[c].op = "sch_del_next"
    /\ ready_list' = [ready_list EXCEPT !.nxt = Upd(@, lop[c].prev, lop[c].next)]
    /\ lop' = [lop EXCEPT ![c].op = "sch_del_prev"]
    /\ UNCHANGED <<task_status, cpu_stack, running, sscratch, added, dispatched,
                   slast, scalls, status, RaceFix>>

\* list::delete, line 2: (*entry.next).prev = entry.prev
SchedDeletePrev(c) ==
    /\ status = "run"
    /\ lop[c].op = "sch_del_prev"
    /\ \E n \in Reload(lop[c].next, ready_list.nxt[lop[c].task]),
          p \in Reload(lop[c].prev, ready_list.prv[lop[c].task]) :
         ready_list' = [ready_list EXCEPT !.prv = Upd(@, n, p)]
    /\ lop' = [lop EXCEPT ![c] = [op |-> "sch_switch", task |-> lop[c].task,
                                  empty |-> FALSE]]
    /\ UNCHANGED <<task_status, cpu_stack, running, sscratch, added, dispatched,
                   slast, scalls, status, RaceFix>>

\* schedule(), sched/mod.rs lines 117-153: the frame, the status, the switch.
SchedSwitch(c) ==
    /\ status = "run"
    /\ lop[c].op = "sch_switch"
    /\ \E t \in {lop[c].task} :
         /\ cpu_stack' = Upd(cpu_stack, t, current_cpu_frame(c))
         /\ task_status' = Upd(task_status, t, "Running")
         /\ \E sw \in {switch_to_task(c, get_trap_frame_ptr(t))} :
              /\ sscratch' = sw.sscratch
              /\ running' = sw.running
         /\ dispatched' = IF lop[c].empty THEN dispatched ELSE Append(dispatched, t)
         /\ slast' = [op |-> "schedule", cpu |-> c, task |-> t,
                      empty |-> lop[c].empty]
    /\ lop' = [lop EXCEPT ![c] = [op |-> "none"]]
    /\ UNCHANGED <<ready_list, added, scalls, status, RaceFix>>

NextRace ==
    \/ \E c \in CPUs, t \in AllTasks : AddBegin(c, t)
    \/ \E c \in CPUs : AddSetPrev(c)
    \/ \E c \in CPUs : AddSetNext(c)
    \/ \E c \in CPUs : AddLinkPrev(c)
    \/ \E c \in CPUs : AddLinkHead(c)
    \/ \E c \in CPUs : SchedBegin(c)
    \/ \E c \in CPUs : SchedNext(c)
    \/ \E c \in CPUs : SchedDeleteNext(c)
    \/ \E c \in CPUs : SchedDeletePrev(c)
    \/ \E c \in CPUs : SchedSwitch(c)

SpecRace == SchedInit /\ [][NextRace]_vars

\* The ready list is a circular doubly-linked list through ready_head.
ReadyListWellFormed ==
    LET nodes == {ready_head} \cup Range(ReadySeq)
    IN  \A x \in nodes :
            /\ x \in DOMAIN ready_list.nxt
            /\ ready_list.nxt[x] \in nodes
            /\ ready_list.nxt[x] \in DOMAIN ready_list.prv
            /\ ready_list.prv[ready_list.nxt[x]] = x

\* C36: with schedule() and ready_list_add_task running at the same time on
\* two harts, whenever no call is in the middle of a list operation the ready
\* list is a well-formed circular doubly-linked list, every task added is on
\* the list or was dispatched, once, and at no time does a thread run on two
\* harts.
C36_ConcurrentReadyList ==
    /\ status = "run"
    /\ \A c, d \in CPUs : (c # d /\ running[c] # NULL) => running[c] # running[d]
    /\ \A i, j \in DOMAIN dispatched : i # j => dispatched[i] # dispatched[j]
    /\ (\A c \in CPUs : ~InCall(c)) =>
          /\ ReadyListWellFormed
          /\ Range(added) = Range(dispatched) \cup Range(ReadySeq)
          /\ Range(dispatched) \cap Range(ReadySeq) = {}

(***************************************************************************)
(* The kernel heap, kmem/mod.rs lines 1015-1133: kmalloc, kzalloc, kfree   *)
(* and coalesce over the AllocList headers of the 512 pages kmem_init      *)
(* took.  A usize within 2^31 of 0 or of 2^64 is the integer congruent to  *)
(* it in -2^31 .. 2^31 - 1, so that sums wrap as the code's do in a build  *)
(* without overflow checks; a build with them panics where a sum wraps.    *)
(***************************************************************************)
\* size_of::<AllocList>()
SIZE_OF_ALLOC_LIST == 8

\* a <= b and a < b on usize
ule(a, b) == IF (a >= 0) = (b >= 0) THEN a <= b ELSE a >= 0

ult(a, b) == a # b /\ ule(a, b)

\* Whether a + b wraps on usize, for a and b below 2^31 or above 2^64 - 2^31
\* and not both above.
wraps(a, b) == (a < 0 \/ b < 0) /\ a + b >= 0

\* The end of the heap: (head as *mut u8).add(KMEM_ALLOC * PAGE_SIZE)
heap_tail(head, alloc) == head + alloc * PAGE_SIZE

\* The word at address a read as an AllocList; memory no header was written
\* to is not read by the walks below.
set_taken(heap, a) == [heap EXCEPT ![a].taken = TRUE]

set_free(heap, a) == Upd(heap, a, [size |-> IF a \in DOMAIN heap THEN heap[a].size
                                            ELSE 0,
                                   taken |-> FALSE])

set_size(heap, a, s) == [heap EXCEPT ![a].size = s]

\* Line 1037: align_up(sz, 3) + size_of::<AllocList>()
kmalloc_size(sz) == align_up(sz, 3) + SIZE_OF_ALLOC_LIST

RECURSIVE kmalloc_from(_, _, _, _)
\* The while loop of kmalloc, lines 1041-1062, from chunk `head` on: the heap
\* it leaves and the pointer it returns; hang when the walk stands on a chunk
\* of size 0, which it never leaves.
kmalloc_from(heap, head, tail, size) ==
    IF ~ult(head, tail) THEN [heap |-> heap, ptr |-> 0, hang |-> FALSE]
    ELSE LET chunk_size == heap[head].size
         IN  IF ~heap[head].taken /\ ule(size, chunk_size)
             THEN LET rem == chunk_size - size
                      h1 == set_taken(heap, head)
                      next == head + size
                  IN  [heap |-> IF rem > SIZE_OF_ALLOC_LIST
                                THEN set_size(set_size(set_free(h1, next), next, rem),
                                              head, size)
                                ELSE set_size(h1, head, chunk_size),
                       ptr |-> head + SIZE_OF_ALLOC_LIST,
                       hang |-> FALSE]
             ELSE IF chunk_size = 0
                  THEN [heap |-> heap, ptr |-> 0, hang |-> TRUE]
                  ELSE kmalloc_from(heap, head + chunk_size, tail, size)

\* kmem::kmalloc(sz, _flags), lines 1031-1068
kmalloc(heap, head, alloc, sz) ==
    IF sz = 0 THEN [heap |-> heap, ptr |-> 0, hang |-> FALSE]
    ELSE kmalloc_from(heap, head, heap_tail(head, alloc), kmalloc_size(sz))

RECURSIVE coalesce(_, _, _)
\* kmem::coalesce, lines 1107-1133, from chunk `head` on: the heap it leaves,
\* whether the debug_assert! of line 1116 was reached, and whether the loop
\* stands on a free chunk whose free neighbour has size 0, which it merges
\* for ever.
coalesce(heap, head, tail) ==
    IF ~ult(head, tail) THEN [heap |-> heap, bad |-> FALSE, hang |-> FALSE]
    ELSE LET size == heap[head].size
             next == head + size
         IN  IF size = 0 THEN [heap |-> heap, bad |-> TRUE, hang |-> FALSE]
             ELSE IF ~ult(next, tail) THEN [heap |-> heap, bad |-> FALSE, hang |-> FALSE]
             ELSE IF ~heap[head].taken /\ ~heap[next].taken
                  THEN IF heap[next].size = 0
                       THEN [heap |-> heap, bad |-> FALSE, hang |-> TRUE]
                       ELSE coalesce(set_size(heap, head, size + heap[next].size),
                                     head, tail)
                  ELSE coalesce(heap, next, tail)

\* kmem::kfree(ptr), lines 1093-1104
kfree(heap, head, alloc, ptr) ==
    IF ptr = 0 THEN [heap |-> heap, bad |-> FALSE, hang |-> FALSE]
    ELSE LET p == ptr - SIZE_OF_ALLOC_LIST
         IN  IF heap[p].taken
             THEN coalesce(set_free(heap, p), head, heap_tail(head, alloc))
             ELSE [heap |-> heap, bad |-> FALSE, hang |-> FALSE]

\* The stores of kzalloc, lines 1077-1085: size / 8 zero words from ret on.
\* A header that lay there reads as size 0, free.
zero_words(heap, ret, size) ==
    [a \in DOMAIN heap |->
        IF ret <= a /\ a < ret + size THEN [size |-> 0, taken |-> FALSE]
        ELSE heap[a]]

\* kmalloc, kzalloc and kfree calls in one run, after kmem_init.
MaxHeapCalls == 4

\* The bytes of the heap.
HeapBytes == ALLOC_COUNT * PAGE_SIZE

\* The sizes asked for: none, small ones, ones that leave nothing, one word
\* and two words of the fresh heap, and the largest usize values.
KmallocSizes ==
    {0, 1, SIZE_OF_ALLOC_LIST, 3 * SIZE_OF_ALLOC_LIST,
     HeapBytes - SIZE_OF_ALLOC_LIST, HeapBytes - 2 * SIZE_OF_ALLOC_LIST,
     HeapBytes - 3 * SIZE_OF_ALLOC_LIST, -1, -SIZE_OF_ALLOC_LIST}

\* What the heap calls leave alone.
HeapFix == <<nxt, prv, bitmap, flags, free_pages, max_pages, ALLOC_START, live,
             freed, KMEM_HEAD, KMEM_ALLOC, svars, xvars>>

\* kmalloc(sz, _) when zero is FALSE, kzalloc(sz, _) (lines 1071-1090) when
\* it is TRUE.  overflow_checks is whether the build panics on a sum that
\* wraps.
HeapAlloc(op, sz, zero) ==
    /\ status = "run"
    /\ KMEM_ALLOC # 0
    /\ calls <= MaxHeapCalls
    /\ \E size \in {IF zero THEN align_up(sz, 3) ELSE sz},
          overflow_checks \in BOOLEAN :
       \E r \in {kmalloc(kheap, KMEM_HEAD, KMEM_ALLOC, size)} :
         IF overflow_checks /\ size # 0
            /\ (wraps(sz, SIZE_OF_ALLOC_LIST - 1) \/ wraps(align_up(size, 3),
                                                          SIZE_OF_ALLOC_LIST))
         THEN /\ status' = "panic"
              /\ UNCHANGED <<kheap, klive>>
              /\ last' = [op |-> op, order |-> 0, addr |-> 0, unlinked |-> << >>,
                          sz |-> sz]
         ELSE /\ status' = IF r.hang THEN "hang"
                           ELSE IF zero /\ r.ptr # 0 /\ size < 0 THEN "fault"
                           ELSE "run"
              /\ kheap' = IF zero /\ r.ptr # 0 THEN zero_words(r.heap, r.ptr, size)
                          ELSE r.heap
              /\ klive' = IF r.ptr = 0 THEN klive
                          ELSE klive \cup {[ptr |-> r.ptr, sz |-> sz]}
              /\ last' = [op |-> op, order |-> 0, addr |-> r.ptr,
                          unlinked |-> << >>, sz |-> sz]
    /\ calls' = calls + 1
    /\ UNCHANGED HeapFix

Kmalloc == \E sz \in KmallocSizes : HeapAlloc("kmalloc", sz, FALSE)

Kzalloc == \E sz \in KmallocSizes : HeapAlloc("kzalloc", sz, TRUE)

\* kfree(ptr) of a live block
Kfree ==
    /\ status = "run"
    /\ KMEM_ALLOC # 0
    /\ calls <= MaxHeapCalls
    /\ \E b \in klive :
       \E r \in {kfree(kheap, KMEM_HEAD, KMEM_ALLOC, b.ptr)} :
         /\ kheap' = r.heap
         /\ klive' = klive \ {b}
         /\ \E debug_assertions \in BOOLEAN :
              status' = IF r.hang THEN "hang"
                        ELSE IF r.bad /\ debug_assertions THEN "panic" ELSE "run"
         /\ last' = [op |-> "kfree", order |-> 0, addr |-> b.ptr,
                     unlinked |-> << >>, sz |-> b.sz]
    /\ calls' = calls + 1
    /\ UNCHANGED HeapFix

NextHeap == KmemInit \/ Kmalloc \/ Kzalloc \/ Kfree

SpecHeap == KmemBoot /\ [][NextHeap]_vars

RECURSIVE ChunkWalk(_, _, _, _)
\* The chunks from `head` on, each the address of its header, up to the end
\* of the heap, a header of size 0 or memory that holds no header; and where
\* the walk ended.
ChunkWalk(heap, head, tail, acc) ==
    IF ~ult(head, tail) \/ head \notin DOMAIN heap \/ head \in Range(acc)
    THEN [chunks |-> acc, ends |-> head]
    ELSE IF heap[head].size <= 0 THEN [chunks |-> acc, ends |-> head]
    ELSE ChunkWalk(heap, head + heap[head].size, tail, Append(acc, head))

KChunks == ChunkWalk(kheap, KMEM_HEAD, heap_tail(KMEM_HEAD, KMEM_ALLOC), << >>)

\* The bytes [a, a + n) and [b, b + m) share none.
Apart(a, n, b, m) == a + n <= b \/ b + m <= a

\* The block lies in the heap: its sz bytes neither wrap nor pass the end.
InHeap(b) ==
    /\ b.sz > 0
    /\ KMEM_HEAD <= b.ptr
    /\ b.ptr + b.sz <= heap_tail(KMEM_HEAD, KMEM_ALLOC)

\* C37: after any kmalloc, kzalloc and kfree calls every live block is
\* 8-byte aligned and its sz bytes lie inside the 512 pages of the heap, the
\* live blocks share no byte with each other, and no live block shares a
\* byte with a chunk header.
C37_HeapIsolation ==
    KMEM_ALLOC # 0 =>
        /\ \A b \in klive : b.ptr % SIZE_OF_ALLOC_LIST = 0 /\ InHeap(b)
        /\ \A a, b \in klive : a # b => Apart(a.ptr, a.sz, b.ptr, b.sz)
        /\ \A b \in klive : \A h \in Range(KChunks.chunks) :
              Apart(b.ptr, b.sz, h, SIZE_OF_ALLOC_LIST)

\* C38: the chunk headers tile the 512 pages of the heap exactly, no chunk of
\* size 0 among them; after every kfree no two adjacent chunks are both
\* free; and once every block is freed the heap is one free chunk of 512
\* pages.
C38_Coalescing ==
    (KMEM_ALLOC # 0 /\ status = "run") =>
        /\ KChunks.ends = heap_tail(KMEM_HEAD, KMEM_ALLOC)
        /\ last.op = "kfree" =>
             \A i \in 1 .. (Len(KChunks.chunks) - 1) :
                 kheap[KChunks.chunks[i]].taken \/ kheap[KChunks.chunks[i + 1]].taken
        /\ (last.op = "kfree" /\ klive = {}) =>
             /\ KChunks.chunks = <<KMEM_HEAD>>
             /\ kheap[KMEM_HEAD] = [size |-> HeapBytes, taken |-> FALSE]

(***************************************************************************)
(* free_unused_entry and the translations.                                 *)
(***************************************************************************)
\* The addresses translated before and after: the pages of the runs, an
\* address inside each, and pages next to them that were never mapped.
ProbeVAs == RunVAs \cup {va \cup {3, 13} : va \in RunVAs} \cup {{30}, {31, 22}, {33}}

\* The part of the memory a translation reads: the entries p of the page
\* tables t.
PageTables(p, t) == [pt |-> p, tables |-> t, st |-> "run"]

\* Table::virt_to_phys(v_addr) on the entries p of the tables t
Translation(p, t, v_addr) ==
    do_virt2phys(PageTables(p, t), LEVELS(table_mode), root, v_addr, "trap").ret

\* The table at addr holds a valid leaf entry.
HasValidLeaf(addr) ==
    \E a \in DOMAIN pt : PageOf(a) = addr /\ is_valid(pt[a]) /\ is_leaf(pt[a])

FreeUnusedReturned ==
    /\ mlast'.op = "free_unused_entry"
    /\ mcalls' = mcalls + 1
    /\ status' = "run"

\* C39: free_unused_entry changes no translation: virt_to_phys(va) is the
\* same right after the call as right before it, for every va, and no table
\* that holds a valid leaf, of whatever level, is freed.
C39_TranslationsKept ==
    [][FreeUnusedReturned
       => /\ \A va \in ProbeVAs : Translation(pt', tables', va) = Translation(pt, tables, va)
          /\ \A t \in tables \ tables' : ~HasValidLeaf(t)]_vars

\* free_unused_entry freed a table while a 4 KiB page or a 2 MiB page was
\* still mapped, and the page still translates.
C39_Witness ==
    /\ status = "run"
    /\ mlast.op = "free_unused_entry"
    /\ mlast.ret = TRUE
    /\ released # {}
    /\ \E va \in RunVAs : Translation(pt, tables, va) # None
(***************************************************************************)
(* The loop of SpinLockPure::lock, one compare_exchange_weak at a time.    *)
(***************************************************************************)
\* Hart c is in the loop of lock() on lock l.
Spinning(c, l) == lop[c].op = "spin" /\ lop[c].lock = l

\* raw_spin_lock(l), raw_spin_lock_irq(l) or raw_spin_lock_irq_save(l) on hart
\* c up to lock.lock(): the interrupt flag, preempt_disable(), and the hart
\* enters the loop.  The hart holds no lock, so a holder is never kept from
\* its unlock() by a loop of its own.
SpinEnter(c, l, kind) ==
    /\ running[c] # NULL
    /\ lop[c].op = "none"
    /\ guards[c] = << >>
    /\ \E e \in {lock_entry(kind, hart_sstatus[c], preempt[c])} :
         /\ hart_sstatus' = [hart_sstatus EXCEPT ![c] = e.s]
         /\ preempt' = [preempt EXCEPT ![c] = e.w]
         /\ lop' = [lop EXCEPT ![c] =
                       [op |-> "spin", lock |-> l, kind |-> kind, flags |-> e.flags,
                        d0 |-> preempt_count(preempt[c]),
                        sie0 |-> ~is_irq_disabled(hart_sstatus[c]),
                        missed |-> FALSE]]
    /\ plast' = [op |-> "spin", cpu |-> c, lock |-> l, kind |-> kind]
    /\ UNCHANGED <<lockw, guards, pdepth, LockFix>>

\* One compare_exchange_weak of the loop that succeeds: lock() returns.
SpinTake(c) ==
    /\ lop[c].op = "spin"
    /\ \E r \in try_lock(lockw[lop[c].lock]) :
         /\ r.ok
         /\ lockw' = [lockw EXCEPT ![lop[c].lock] = r.val]
    /\ guards' = [guards EXCEPT ![c] = Append(guards[c],
                     [lock |-> lop[c].lock, kind |-> lop[c].kind,
                      flags |-> lop[c].flags, d0 |-> lop[c].d0,
                      sie0 |-> lop[c].sie0, reopened |-> FALSE])]
    /\ pdepth' = [pdepth EXCEPT ![c] = pdepth[c] + 1]
    /\ lop' = [lop EXCEPT ![c] = [op |-> "none"]]
    /\ plast' = [op |-> "lock", cpu |-> c, lock |-> lop[c].lock, kind |-> lop[c].kind,
                 ok |-> TRUE, missed |-> lop[c].missed]
    /\ UNCHANGED <<preempt, hart_sstatus, LockFix>>

\* One compare_exchange_weak of the loop that fails, the lock held or not:
\* the loop goes round.
SpinMiss(c) ==
    /\ lop[c].op = "spin"
    /\ \E r \in try_lock(lockw[lop[c].lock]) :
         /\ ~r.ok
         /\ lockw' = [lockw EXCEPT ![lop[c].lock] = r.val]
    /\ lop' = [lop EXCEPT ![c].missed = TRUE]
    /\ UNCHANGED <<preempt, hart_sstatus, guards, pdepth, plast, LockFix>>

NextSpin ==
    \/ \E c \in CPUs, l \in Locks, kind \in LockKinds \ {"try"} : SpinEnter(c, l, kind)
    \/ \E c \in CPUs : SpinTake(c)
    \/ \E c \in CPUs : SpinMiss(c)
    \/ \E c \in CPUs : UnlockRelease(c)
    \/ \E c \in CPUs : UnlockLeave(c)

\* Every holder goes on to its unlock(), and a hart in the loop keeps
\* trying: a compare-exchange on a word that stays free does not fail for ever.
SpinFair ==
    \A c \in CPUs :
        /\ WF_vars(UnlockRelease(c))
        /\ WF_vars(UnlockLeave(c))
        /\ WF_vars(SpinTake(c))

SpecSpin == LockInit /\ [][NextSpin]_vars /\ SpinFair

\* Strong fairness of the compare-exchange: a hart whose compare-exchange
\* could succeed again and again does succeed.
SpinStrong == \A c \in CPUs : SF_vars(SpinTake(c))

\* C40: with every holder going on to unlock() and the harts scheduled
\* fairly, a lock that is free while some hart is in the loop of lock() on it
\* is taken in the end; and under strong fairness of the compare-exchange
\* every lock() call returns with the lock held by its caller.
C40_SpinLockProgress ==
    /\ \A l \in Locks :
         (~lockw[l] /\ \E c \in CPUs : Spinning(c, l)) ~> lockw[l]
    /\ SpinStrong
         => \A c \in CPUs, l \in Locks : Spinning(c, l) ~> (c \in Holders(l))

\* A hart took a lock after a compare-exchange of its loop had failed, while
\* the other hart is in the loop on the same lock.
C40_Witness ==
    /\ plast.op = "lock"
    /\ plast.missed
    /\ plast.cpu \in Holders(plast.lock)
    /\ \E c \in CPUs \ {plast.cpu} : Spinning(c, plast.lock) /\ lop[c].missed

====
